---- MODULE Spec2Model ----
(***************************************************************************)
(* A model of the btrdb storage backend: the address allocator, the        *)
(* segment writer and blob reader of the ceph provider                     *)
(* (internal/cephprovider/cephprovider.go), the single-flight chunk gate   *)
(* of the read path, and the ingest coalescer (quasar.go).                 *)
(*                                                                         *)
(* Each part has its own variables, its own Init and Next and its own      *)
(* specification; a specification leaves the other parts idle.             *)
(***************************************************************************)
EXTENDS Integers, Sequences, FiniteSets, TLC

VARIABLES
    \* ---- address allocator (one entry per node) ----
    allocator,   \* the 8-byte counter persisted in object "allocator"
    alloc_lock,  \* node holding advisory lock "alloc_lock", 0 when free
    apc,         \* where each node's allocating goroutine stands
    le,          \* obtainBaseAddress: the counter value it read
    arv,         \* obtainBaseAddress: the value it is about to return
    acaller,     \* who called obtainBaseAddress: Initialize or provideAllocs
    ptr,         \* sp.ptr
    abase,       \* provideAllocs: base
    alloc,       \* sp.alloc, the channel of allocations
    given        \* history: every address sent on sp.alloc, in order

allocVars == <<allocator, alloc_lock, apc, le, arv, acaller, ptr, abase, alloc, given>>

VARIABLES
    \* ---- ingest coalescer (quasar.go), one stream U ----
    globlock,    \* q.globlock: the goroutine holding it, NoOne when free
    treelock,    \* q.treelocks[U]: the goroutine holding it, NoOne when free
    opened,      \* U is in q.openTrees (and q.treelocks)
    exists,      \* q.bs.StreamExists(U)
    store,       \* tr.store: the pending records
    storeNonNil, \* tr.store != nil
    sigEC,       \* tr.sigEC: the abort channel of the latest batch, 0 when nil
    chanbuf,     \* tokens buffered in each abort channel (capacity 1)
    nch,         \* abort channels made so far
    cpc,         \* where each goroutine stands
    cop,         \* the operation a client is running
    ck,          \* InsertValues: len(r)
    crecs,       \* InsertValues: the records of the call, once appended
    creached,    \* InsertValues: the append reached CoalesceMaxPoints
    cres,        \* what the client's last call returned
    nrec,        \* records accepted so far (records are numbered)
    nops,        \* calls started so far
    ncommit,     \* hand-overs to the tree engine so far
    handedBy,    \* per record: the hand-overs that carried it
    syncDone,    \* batches committed by a caller or by shutdown (not a timer)
    pendingAtLock, \* per caller: the records pending when it took the tree mutex
    sendTo       \* per goroutine: the abort channel its send waits on, 0 when none

coalVars == <<globlock, treelock, opened, exists, store, storeNonNil, sigEC,
              chanbuf, nch, cpc, cop, ck, crecs, creached, cres, nrec, nops,
              ncommit, handedBy, syncDone, pendingAtLock, sendTo>>

VARIABLES
    \* ---- read path: one chunk of one stream ----
    objVer,      \* writes the object holding the chunk has received
    cachedVer,   \* the chunk in sp.rcache (the content it was read at), or Absent
    chunklock,   \* sp.chunklock: the goroutine holding it, NoOne when free
    gateOpen,    \* sp.chunkgate has an entry for the chunk
    gate,        \* the waiters of that entry
    rpc,         \* where each caller of obtainChunk stands
    fpc,         \* where the fetching goroutine a caller started stands
    bslice,      \* the fetching goroutine's bslice
    rvc,         \* each caller's channel rvc (capacity 1)
    rgot,        \* what obtainChunk returned to the caller
    storeReads,  \* object-store reads of the chunk so far
    drops,       \* times the chunk was removed from the cache
    evicts,      \* evictions among them
    conc,        \* two calls of obtainChunk have been running at once
    wpc          \* where the flushing writer stands

chunkVars == <<objVer, cachedVer, chunklock, gateOpen, gate, rpc, fpc, bslice, rvc,
               rgot, storeReads, drops, evicts, conc, wpc>>

VARIABLES
    \* ---- segment writer of node 1, one stream ----
    segpc,        \* "locked" while the stream's segment is locked
    seg_ptr,      \* seg.ptr
    seg_base,     \* seg.base
    seg_naddr,    \* seg.naddr
    wcache,       \* seg.wcache: the blobs buffered, in order
    wcache_base,  \* seg.wcache_base
    segaddrcache, \* sp.segaddrcache[uuid]: empty, or the cached address
    objstore,     \* the blobs the stream's objects hold
    written,      \* history: the Write calls, in order
    rd,           \* the Read made since the writer's last call, and what it returned
    nsegs,        \* LockSegment calls so far
    resumed       \* the locked segment started at a cached address

segVars == <<segpc, seg_ptr, seg_base, seg_naddr, wcache, wcache_base, segaddrcache,
             objstore, written, rd, nsegs, resumed>>

VARIABLES
    \* ---- how the last refused call ended ----
    wres          \* Write with an address other than seg.naddr: "none" before any

callVars == <<wres>>

VARIABLES
    \* ---- stream metadata in the object store, and its callers ----
    owner,         \* the node for which WeHoldWriteLockFor(uuid) is true
    mver,          \* attribute "version" of meta<uuid>, 0 when absent
    mstream,       \* attribute "stream" of meta<uuid>
    colmap,        \* the maps col.<collection>: entries tag string -> uuid
    colindex,      \* the collections noted in the index.<partition> maps
    mann,          \* the object ann<uuid>: version prefix and annotation
    annotationMu,  \* sp.annotationMu of each node: the caller holding it, or 0
    mpc,           \* where each caller stands
    marg,          \* the arguments of its call
    mres,          \* what its last call returned
    existingAver,  \* SetStreamAnnotation: existingAver
    created,       \* history: collection and tags of the CreateStream that succeeded
    lastSet,       \* history: the last SetStreamAnnotation that succeeded
    nmeta,         \* calls started
    nstops         \* processes stopped

metaVars == <<owner, mver, mstream, colmap, colindex, mann, annotationMu, mpc, marg, mres,
              existingAver, created, lastSet, nmeta, nstops>>

VARIABLES
    \* ---- superblocks in the object store ----
    sbobj,         \* the bytes of each object sb<uuid><chunk>
    sblast,        \* history: the buffer of the last WriteSuperBlock(uuid, version)
    sbres,         \* what the last ReadSuperBlock returned
    nsbw           \* WriteSuperBlock calls made

sbVars == <<sbobj, sblast, sbres, nsbw>>

VARIABLES
    \* ---- segment-address cache of node 1, several streams ----
    cseg,          \* per stream: its segment (ptr, base, naddr)
    segstep,           \* per stream: "unlocked", "locked", or a step of Unlock
    segcachelock,  \* sp.segcachelock: the stream holding it, or 0
    addrcache,     \* sp.segaddrcache for these streams, Absent when no entry
    othercached,   \* entries of sp.segaddrcache that belong to other streams
    lastnaddr,     \* history: seg.naddr at the stream's last Unlock
    pruned,        \* history: the cache was emptied since the stream's last Unlock
    prunedAt,      \* the size pruneSegCache found when it emptied the cache in the last step
    ncacheops,     \* calls started
    wrote          \* history: the blobs written, as (call, stream, first byte, byte after the last)

cacheVars == <<cseg, segstep, segcachelock, addrcache, othercached, lastnaddr, pruned,
               prunedAt, ncacheops, wrote>>

VARIABLES
    \* ---- handle pools of one node ----
    h_avail,       \* sp.rh_avail, sp.wh_avail
    hidx,          \* sp.rhidx, sp.whidx: handles queued for acquisition
    hidx_ret,      \* sp.rhidx_ret, sp.whidx_ret: handles queued for return
    vpc,           \* where each vendor stands in its loop
    vi,            \* the i of the vendor's for loop
    vfound,        \* the vendor's found
    hstep,         \* per caller: "idle", "wait" or "held"
    hwant,         \* per caller: the pool it takes from, and how
    hheld,         \* per caller: the handle it holds, or Absent
    otherheld,     \* handles held by callers that keep them
    hpanic,        \* GetRH has panicked
    nacq           \* acquisitions started

poolVars == <<h_avail, hidx, hidx_ret, vpc, vi, vfound, hstep, hwant, hheld, otherheld,
              hpanic, nacq>>

vars == <<allocVars, coalVars, chunkVars, segVars, callVars, metaVars, sbVars, cacheVars, poolVars>>

\* What the actions of one part leave alone.
NotAlloc == <<coalVars, chunkVars, segVars, callVars, metaVars, sbVars, cacheVars, poolVars>>
NotCoal == <<allocVars, chunkVars, segVars, callVars, metaVars, sbVars, cacheVars, poolVars>>
NotChunk == <<allocVars, coalVars, segVars, callVars, metaVars, sbVars, cacheVars, poolVars>>
NotSegAlloc == <<coalVars, chunkVars, callVars, metaVars, sbVars, cacheVars, poolVars>>
NotMeta == <<allocVars, coalVars, chunkVars, segVars, callVars, sbVars, cacheVars, poolVars>>
NotSB == <<allocVars, coalVars, chunkVars, segVars, callVars, metaVars, cacheVars, poolVars>>
NotCacheAlloc == <<coalVars, chunkVars, segVars, callVars, metaVars, sbVars, poolVars>>
NotCache == <<allocVars, coalVars, chunkVars, segVars, callVars, metaVars, sbVars, poolVars>>
NotPool == <<allocVars, coalVars, chunkVars, segVars, callVars, metaVars, sbVars, cacheVars>>

(***************************************************************************)
(* Program constants.                                                      *)
(***************************************************************************)
ADDR_OBJ_SIZE == 16777216            \* 0x0001000000
MAX_EXPECTED_OBJECT_SIZE == 20485
OFFSET_MASK == 16777215              \* 0xFFFFFF
R_CHUNKSIZE == 1048576               \* 1 << 20
WORTH_CACHING == OFFSET_MASK - MAX_EXPECTED_OBJECT_SIZE
WCACHE_SIZE == 1048576               \* 1 << 20
CreateDatabaseAddr == 16777216       \* CreateDatabase: addr := uint64(0x1000000)

(***************************************************************************)
(* Bounds of the model.                                                    *)
(***************************************************************************)
\* Objects per lock-range.  The source has ADDR_LOCK_SIZE = 0x1000000000,
\* 4096 objects; the model keeps the arithmetic and shortens the range so
\* that a range is exhausted within the bounds (and addresses stay below
\* 2^31).
LockObjs == 2
\* Nodes of the cluster sharing the persisted counter.
NumNodes == 2
\* Allocations each node's producer sends in one behaviour.
MaxGiven == 3
\* Capacity of sp.alloc (128 in the source: how far the producer runs ahead).
AllocCap == 1

ADDR_LOCK_SIZE == LockObjs * ADDR_OBJ_SIZE
Nodes == 1..NumNodes

(***************************************************************************)
(* Address allocator: obtainBaseAddress, provideAllocs, Initialize.        *)
(***************************************************************************)
AllocInitFor(S) ==
    /\ allocator = CreateDatabaseAddr
    /\ alloc_lock = 0
    /\ apc = [n \in Nodes |-> IF n \in S THEN "lock" ELSE "off"]
    /\ le = [n \in Nodes |-> 0]
    /\ arv = [n \in Nodes |-> 0]
    /\ acaller = [n \in Nodes |-> "Initialize"]
    /\ ptr = [n \in Nodes |-> 0]
    /\ abase = [n \in Nodes |-> 0]
    /\ alloc = [n \in Nodes |-> <<>>]
    /\ given = [n \in Nodes |-> <<>>]

\* h.LockExclusive("allocator", "alloc_lock", "main", "alloc", 5s, nil): the
\* call does not wait.  It takes the lock when it is free and reports busy
\* when another client holds it; the code discards what it reports.
LockExclusive(n) ==
    IF alloc_lock = 0 THEN n ELSE alloc_lock

\* h.Unlock("allocator", "alloc_lock", "main"): releases the caller's lock.
Unlock(n) ==
    IF alloc_lock = n THEN 0 ELSE alloc_lock

obtainLock(n) ==
    /\ apc[n] = "lock"
    /\ alloc_lock' = LockExclusive(n)
    /\ apc' = [apc EXCEPT ![n] = "read"]
    /\ UNCHANGED <<allocator, le, arv, acaller, ptr, abase, alloc, given>>
    /\ UNCHANGED NotAlloc

\* c, err := h.Read("allocator", addr, 0); a failed or short read unlocks
\* and returns 0.
obtainRead(n) ==
    /\ apc[n] = "read"
    /\ \E ok \in BOOLEAN :
         IF ok
         THEN /\ le' = [le EXCEPT ![n] = allocator]
              /\ apc' = [apc EXCEPT ![n] = "write"]
              /\ UNCHANGED <<alloc_lock, arv>>
         ELSE /\ alloc_lock' = Unlock(n)
              /\ arv' = [arv EXCEPT ![n] = 0]
              /\ apc' = [apc EXCEPT ![n] = "return"]
              /\ UNCHANGED le
    /\ UNCHANGED <<allocator, acaller, ptr, abase, alloc, given>>
    /\ UNCHANGED NotAlloc

\* ne := le + ADDR_LOCK_SIZE; h.WriteFull("allocator", addr)
NextCounter(v) == v + ADDR_LOCK_SIZE

obtainWrite(n) ==
    /\ apc[n] = "write"
    /\ allocator' = NextCounter(le[n])
    /\ apc' = [apc EXCEPT ![n] = "unlock"]
    /\ UNCHANGED <<alloc_lock, le, arv, acaller, ptr, abase, alloc, given>>
    /\ UNCHANGED NotAlloc

obtainUnlock(n) ==
    /\ apc[n] = "unlock"
    /\ alloc_lock' = Unlock(n)
    /\ arv' = [arv EXCEPT ![n] = le[n]]
    /\ apc' = [apc EXCEPT ![n] = "return"]
    /\ UNCHANGED <<allocator, le, acaller, ptr, abase, alloc, given>>
    /\ UNCHANGED NotAlloc

\* The caller takes the result: Initialize panics on 0 and otherwise starts
\* provideAllocs (base := sp.ptr); provideAllocs takes any result as its
\* new range.
obtainReturn(n) ==
    /\ apc[n] = "return"
    /\ ptr' = [ptr EXCEPT ![n] = arv[n]]
    /\ IF acaller[n] = "Initialize" /\ arv[n] = 0
       THEN /\ apc' = [apc EXCEPT ![n] = "panic"]
            /\ UNCHANGED abase
       ELSE /\ apc' = [apc EXCEPT ![n] = "provide"]
            /\ abase' = [abase EXCEPT ![n] = arv[n]]
    /\ UNCHANGED <<allocator, alloc_lock, le, arv, acaller, alloc, given>>
    /\ UNCHANGED NotAlloc

\* One turn of provideAllocs' loop: sp.alloc <- sp.ptr; sp.ptr += ADDR_OBJ_SIZE;
\* at the end of the range, call obtainBaseAddress.
provideAllocs(n) ==
    /\ apc[n] = "provide"
    /\ Len(alloc[n]) < AllocCap
    /\ Len(given[n]) < MaxGiven
    /\ alloc' = [alloc EXCEPT ![n] = Append(@, ptr[n])]
    /\ given' = [given EXCEPT ![n] = Append(@, ptr[n])]
    /\ ptr' = [ptr EXCEPT ![n] = @ + ADDR_OBJ_SIZE]
    /\ IF ptr[n] + ADDR_OBJ_SIZE >= abase[n] + ADDR_LOCK_SIZE
       THEN /\ apc' = [apc EXCEPT ![n] = "lock"]
            /\ acaller' = [acaller EXCEPT ![n] = "provideAllocs"]
       ELSE UNCHANGED <<apc, acaller>>
    /\ UNCHANGED <<allocator, alloc_lock, le, arv, abase>>
    /\ UNCHANGED NotAlloc

\* A consumer of the node (LockSegment or Write) receives from sp.alloc.
takeAlloc(n) ==
    /\ alloc[n] # <<>>
    /\ alloc' = [alloc EXCEPT ![n] = Tail(@)]
    /\ UNCHANGED <<allocator, alloc_lock, apc, le, arv, acaller, ptr, abase, given>>
    /\ UNCHANGED NotAlloc

AllocStep(n) ==
    \/ obtainLock(n)
    \/ obtainRead(n)
    \/ obtainWrite(n)
    \/ obtainUnlock(n)
    \/ obtainReturn(n)
    \/ provideAllocs(n)

(***************************************************************************)
(* Ingest coalescer (quasar.go).  The goroutines are the callers of        *)
(* InsertValues, Flush and DeleteRange, one coalesce timer per abort       *)
(* channel, and the goroutine InitiateShutdown starts.                     *)
(***************************************************************************)
\* q.cfg.CoalesceMaxPoints(), a configuration value.
CoalesceMaxPoints == 2
\* Concurrent callers.
NumClients == 2
\* Batches (abort channels, timers) started in one behaviour.
MaxBatches == 2
\* Records accepted in one behaviour, and the longest r of one call.
MaxRecs == 3
MaxIns == 2
\* Calls started in one behaviour.
MaxOps == 3

NoOne == 0
Clients == 1..NumClients
TimerOf(k) == NumClients + k
TimerIds == {TimerOf(k) : k \in 1..MaxBatches}
Shut == NumClients + MaxBatches + 1
Goroutines == Clients \cup TimerIds \cup {Shut}
Recs == 1..MaxRecs

Range(q) == {q[i] : i \in DOMAIN q}

CoalInit ==
    /\ globlock = NoOne
    /\ treelock = NoOne
    /\ opened = FALSE
    /\ exists \in BOOLEAN
    /\ store = <<>>
    /\ storeNonNil = FALSE
    /\ sigEC = 0
    /\ chanbuf = [k \in 1..MaxBatches |-> 0]
    /\ nch = 0
    /\ cpc = [g \in Goroutines |->
                IF g \in Clients THEN "idle" ELSE IF g = Shut THEN "off" ELSE "none"]
    /\ cop = [c \in Clients |-> "none"]
    /\ ck = [c \in Clients |-> 0]
    /\ crecs = [c \in Clients |-> <<>>]
    /\ creached = [c \in Clients |-> FALSE]
    /\ cres = [c \in Clients |-> "none"]
    /\ nrec = 0
    /\ nops = 0
    /\ ncommit = 0
    /\ handedBy = [r \in Recs |-> <<>>]
    /\ syncDone = {}
    /\ pendingAtLock = [c \in Clients |-> {}]
    /\ sendTo = [g \in Goroutines |-> 0]

\* Calls of InsertValues that have not appended yet, and what they will add.
BeforeAppend(c) ==
    cop[c] = "InsertValues" /\ cpc[c] \in {"getTree", "lookup", "mtxlock", "append"}

RECURSIVE SumK(_)
SumK(S) ==
    IF S = {} THEN 0
    ELSE LET c == CHOOSE x \in S : TRUE IN ck[c] + SumK(S \ {c})

ToCome == SumK({c \in Clients : BeforeAppend(c)})
BatchesToCome == Cardinality({c \in Clients : BeforeAppend(c)})

\* A caller enters InsertValues, Flush or DeleteRange: the cluster
\* predicate WeHoldWriteLockFor decides whether it goes on to getTree.
startCall(c) ==
    /\ cpc[c] = "idle"
    /\ nops < MaxOps
    /\ \E o \in {"InsertValues", "Flush", "DeleteRange"}, k \in 0..MaxIns, owns \in BOOLEAN :
         /\ o # "InsertValues" => k = 0
         /\ o = "InsertValues" =>
              /\ nrec + ToCome + k <= MaxRecs
              /\ nch + BatchesToCome < MaxBatches
         /\ cop' = [cop EXCEPT ![c] = o]
         /\ ck' = [ck EXCEPT ![c] = k]
         /\ crecs' = [crecs EXCEPT ![c] = <<>>]
         /\ creached' = [creached EXCEPT ![c] = FALSE]
         /\ IF owns
            THEN /\ cpc' = [cpc EXCEPT ![c] = "getTree"]
                 /\ cres' = [cres EXCEPT ![c] = "none"]
            ELSE /\ cpc' = cpc
                 /\ cres' = [cres EXCEPT ![c] = "WrongEndpoint"]
    /\ nops' = nops + 1
    /\ UNCHANGED <<globlock, treelock, opened, exists, store, storeNonNil, sigEC,
                   chanbuf, nch, nrec, ncommit, handedBy, syncDone, pendingAtLock, sendTo>>
    /\ UNCHANGED NotCoal

\* getTree: q.globlock.Lock()
getTreeLock(c) ==
    /\ cpc[c] = "getTree"
    /\ globlock = NoOne
    /\ globlock' = c
    /\ cpc' = [cpc EXCEPT ![c] = "lookup"]
    /\ UNCHANGED <<treelock, opened, exists, store, storeNonNil, sigEC, chanbuf, nch,
                   cop, ck, crecs, creached, cres, nrec, nops, ncommit, handedBy, syncDone, pendingAtLock, sendTo>>
    /\ UNCHANGED NotCoal

\* getTree registering the tree and its mutex before it asks whether the
\* stream exists.
getTreeRegisterFirst(c) ==
    /\ cpc[c] = "lookup"
    /\ globlock' = NoOne
    /\ opened' = TRUE
    /\ IF opened \/ exists
       THEN /\ cpc' = [cpc EXCEPT ![c] = "mtxlock"]
            /\ UNCHANGED cres
       ELSE /\ cpc' = [cpc EXCEPT ![c] = "idle"]
            /\ cres' = [cres EXCEPT ![c] = "NoSuchStream"]
    /\ UNCHANGED <<treelock, exists, store, storeNonNil, sigEC, chanbuf, nch,
                   cop, ck, crecs, creached, nrec, nops, ncommit, handedBy, syncDone, pendingAtLock, sendTo>>
    /\ UNCHANGED NotCoal

\* getTree: look U up in q.openTrees; when absent, newOpenTree asks the
\* block store whether the stream exists and the tree and its mutex are
\* registered; q.globlock.Unlock() on every path.
getTree(c) ==
    /\ cpc[c] = "lookup"
    /\ globlock' = NoOne
    /\ IF opened \/ exists
       THEN /\ opened' = TRUE
            /\ cpc' = [cpc EXCEPT ![c] = "mtxlock"]
            /\ UNCHANGED cres
       ELSE /\ cpc' = [cpc EXCEPT ![c] = "idle"]
            /\ cres' = [cres EXCEPT ![c] = "NoSuchStream"]
            /\ UNCHANGED opened
    /\ UNCHANGED <<treelock, exists, store, storeNonNil, sigEC, chanbuf, nch,
                   cop, ck, crecs, creached, nrec, nops, ncommit, handedBy, syncDone, pendingAtLock, sendTo>>
    /\ UNCHANGED NotCoal

\* mtx.Lock() in InsertValues, Flush and DeleteRange.
mtxLock(c) ==
    /\ cpc[c] = "mtxlock"
    /\ treelock = NoOne
    /\ treelock' = c
    /\ cpc' = [cpc EXCEPT ![c] = IF cop[c] = "InsertValues" THEN "append" ELSE "check"]
    /\ pendingAtLock' = [pendingAtLock EXCEPT ![c] = Range(store)]
    /\ UNCHANGED <<globlock, opened, exists, store, storeNonNil, sigEC, chanbuf, nch,
                   cop, ck, crecs, creached, cres, nrec, nops, ncommit, handedBy, syncDone, sendTo>>
    /\ UNCHANGED NotCoal

NewRecs(k) == [i \in 1..k |-> nrec + i]

\* InsertValues without the test of lines 170-174: the call unlocks after the
\* append whatever the length of the batch.
insertAppendNoTrip(c) ==
    /\ cpc[c] = "append"
    /\ IF ~storeNonNil
       THEN /\ nch' = nch + 1
            /\ sigEC' = nch + 1
            /\ cpc' = [cpc EXCEPT ![c] = "unlock", ![TimerOf(nch + 1)] = "sleep"]
       ELSE /\ cpc' = [cpc EXCEPT ![c] = "unlock"]
            /\ UNCHANGED <<nch, sigEC>>
    /\ storeNonNil' = TRUE
    /\ store' = (IF storeNonNil THEN store ELSE <<>>) \o NewRecs(ck[c])
    /\ crecs' = [crecs EXCEPT ![c] = NewRecs(ck[c])]
    /\ creached' = [creached EXCEPT ![c] = Len(store') >= CoalesceMaxPoints]
    /\ nrec' = nrec + ck[c]
    /\ UNCHANGED <<globlock, treelock, opened, exists, chanbuf, cop, ck, cres, nops,
                   ncommit, handedBy, syncDone, pendingAtLock, sendTo>>
    /\ UNCHANGED NotCoal

\* InsertValues, lines 149-170: a nil store is made (non-nil, empty), with a
\* new abort channel and a new timer; r is appended; the threshold decides
\* whether the call signals and commits.
insertAppend(c) ==
    /\ cpc[c] = "append"
    /\ IF ~storeNonNil
       THEN /\ nch' = nch + 1
            /\ sigEC' = nch + 1
            /\ cpc' = [cpc EXCEPT ![c] = IF Len(store) + ck[c] >= CoalesceMaxPoints
                                          THEN "signal" ELSE "unlock",
                                  ![TimerOf(nch + 1)] = "sleep"]
       ELSE /\ cpc' = [cpc EXCEPT ![c] = IF Len(store) + ck[c] >= CoalesceMaxPoints
                                          THEN "signal" ELSE "unlock"]
            /\ UNCHANGED <<nch, sigEC>>
    /\ storeNonNil' = TRUE
    /\ store' = (IF storeNonNil THEN store ELSE <<>>) \o NewRecs(ck[c])
    /\ crecs' = [crecs EXCEPT ![c] = NewRecs(ck[c])]
    /\ creached' = [creached EXCEPT ![c] = Len(store') >= CoalesceMaxPoints]
    /\ nrec' = nrec + ck[c]
    /\ UNCHANGED <<globlock, treelock, opened, exists, chanbuf, cop, ck, cres, nops,
                   ncommit, handedBy, syncDone, pendingAtLock, sendTo>>
    /\ UNCHANGED NotCoal

\* Flush and DeleteRange: if len(tr.store) != 0 { signal; commit }
\* InitiateShutdown's loop body does the same for the open tree.
AfterCommit(g) ==
    IF g = Shut THEN "close"
    ELSE IF g \in Clients /\ cop[g] = "DeleteRange" THEN "delete"
    ELSE "unlock"

checkStore(g) ==
    /\ cpc[g] = "check"
    /\ cpc' = [cpc EXCEPT ![g] = IF Len(store) # 0 THEN "signal" ELSE AfterCommit(g)]
    /\ UNCHANGED <<globlock, treelock, opened, exists, store, storeNonNil, sigEC, chanbuf,
                   nch, cop, ck, crecs, creached, cres, nrec, nops, ncommit, handedBy,
                   syncDone, pendingAtLock, sendTo>>
    /\ UNCHANGED NotCoal

\* tr.sigEC <- true: the channel is the one tr.sigEC names when the statement
\* is reached; the send completes when that channel's one slot is free and
\* waits on that channel otherwise.
signal(g) ==
    /\ cpc[g] = "signal"
    /\ IF sendTo[g] = 0
       THEN /\ sigEC # 0
            /\ IF chanbuf[sigEC] = 0
               THEN /\ chanbuf' = [chanbuf EXCEPT ![sigEC] = 1]
                    /\ cpc' = [cpc EXCEPT ![g] = "commit"]
                    /\ UNCHANGED sendTo
               ELSE /\ sendTo' = [sendTo EXCEPT ![g] = sigEC]
                    /\ UNCHANGED <<chanbuf, cpc>>
       ELSE /\ chanbuf[sendTo[g]] = 0
            /\ chanbuf' = [chanbuf EXCEPT ![sendTo[g]] = 1]
            /\ cpc' = [cpc EXCEPT ![g] = "commit"]
            /\ sendTo' = [sendTo EXCEPT ![g] = 0]
    /\ UNCHANGED <<globlock, treelock, opened, exists, store, storeNonNil, sigEC,
                   nch, cop, ck, crecs, creached, cres, nrec, nops, ncommit, handedBy,
                   syncDone, pendingAtLock>>
    /\ UNCHANGED NotCoal

\* commit, lines 118-122: an empty store returns at once.
commitEnter(g) ==
    /\ cpc[g] = "commit"
    /\ cpc' = [cpc EXCEPT ![g] = IF Len(store) = 0 THEN AfterCommit(g) ELSE "hand"]
    /\ UNCHANGED <<globlock, treelock, opened, exists, store, storeNonNil, sigEC, chanbuf,
                   nch, cop, ck, crecs, creached, cres, nrec, nops, ncommit, handedBy,
                   syncDone, pendingAtLock, sendTo>>
    /\ UNCHANGED NotCoal

\* commit, lines 123-130: tr.InsertValues(t.store); tr.Commit()
commitHand(g) ==
    /\ cpc[g] = "hand"
    /\ ncommit' = ncommit + 1
    /\ handedBy' = [r \in Recs |->
                      IF r \in Range(store) THEN Append(handedBy[r], ncommit + 1)
                      ELSE handedBy[r]]
    /\ syncDone' = IF g \notin TimerIds /\ store # <<>>
                   THEN syncDone \cup {sigEC} ELSE syncDone
    /\ cpc' = [cpc EXCEPT ![g] = "clear"]
    /\ UNCHANGED <<globlock, treelock, opened, exists, store, storeNonNil, sigEC, chanbuf,
                   nch, cop, ck, crecs, creached, cres, nrec, nops, pendingAtLock, sendTo>>
    /\ UNCHANGED NotCoal

\* commit, line 131: t.store = nil
commitClear(g) ==
    /\ cpc[g] = "clear"
    /\ store' = <<>>
    /\ storeNonNil' = FALSE
    /\ cpc' = [cpc EXCEPT ![g] = AfterCommit(g)]
    /\ UNCHANGED <<globlock, treelock, opened, exists, sigEC, chanbuf,
                   nch, cop, ck, crecs, creached, cres, nrec, nops, ncommit, handedBy,
                   syncDone, pendingAtLock, sendTo>>
    /\ UNCHANGED NotCoal

\* DeleteRange, lines 370-378: a failing NewWriteQTree returns the error
\* (the mutex is not released on that path); otherwise the tree engine
\* deletes the range and commits.
deleteRange(c) ==
    /\ cpc[c] = "delete"
    /\ \E ok \in BOOLEAN :
         IF ok
         THEN /\ cpc' = [cpc EXCEPT ![c] = "unlock"]
              /\ UNCHANGED cres
         ELSE /\ cpc' = [cpc EXCEPT ![c] = "idle"]
              /\ cres' = [cres EXCEPT ![c] = "error"]
    /\ UNCHANGED <<globlock, treelock, opened, exists, store, storeNonNil, sigEC, chanbuf,
                   nch, cop, ck, crecs, creached, nrec, nops, ncommit, handedBy, syncDone, pendingAtLock, sendTo>>
    /\ UNCHANGED NotCoal

\* mtx.Unlock(), and the return of the caller or the end of the timer.
mtxUnlock(g) ==
    /\ cpc[g] = "unlock"
    /\ treelock' = NoOne
    /\ IF g \in Clients
       THEN /\ cpc' = [cpc EXCEPT ![g] = "idle"]
            /\ cres' = [cres EXCEPT ![g] = "ok"]
       ELSE /\ cpc' = [cpc EXCEPT ![g] = "done"]
            /\ UNCHANGED cres
    /\ UNCHANGED <<globlock, opened, exists, store, storeNonNil, sigEC, chanbuf,
                   nch, cop, ck, crecs, creached, nrec, nops, ncommit, handedBy, syncDone, pendingAtLock, sendTo>>
    /\ UNCHANGED NotCoal

\* The coalesce timer's select: case <-tmt
timerExpire(k) ==
    /\ cpc[TimerOf(k)] = "sleep"
    /\ cpc' = [cpc EXCEPT ![TimerOf(k)] = "wantlock"]
    /\ UNCHANGED <<globlock, treelock, opened, exists, store, storeNonNil, sigEC, chanbuf,
                   nch, cop, ck, crecs, creached, cres, nrec, nops, ncommit, handedBy,
                   syncDone, pendingAtLock, sendTo>>
    /\ UNCHANGED NotCoal

\* The coalesce timer's select: case <-abrt
timerAbort(k) ==
    /\ cpc[TimerOf(k)] = "sleep"
    /\ chanbuf[k] = 1
    /\ chanbuf' = [chanbuf EXCEPT ![k] = 0]
    /\ cpc' = [cpc EXCEPT ![TimerOf(k)] = "done"]
    /\ UNCHANGED <<globlock, treelock, opened, exists, store, storeNonNil, sigEC,
                   nch, cop, ck, crecs, creached, cres, nrec, nops, ncommit, handedBy,
                   syncDone, pendingAtLock, sendTo>>
    /\ UNCHANGED NotCoal

\* The coalesce timer after <-tmt: mtx.Lock()
timerLock(k) ==
    /\ cpc[TimerOf(k)] = "wantlock"
    /\ treelock = NoOne
    /\ treelock' = TimerOf(k)
    /\ cpc' = [cpc EXCEPT ![TimerOf(k)] = "commit"]
    /\ UNCHANGED <<globlock, opened, exists, store, storeNonNil, sigEC, chanbuf,
                   nch, cop, ck, crecs, creached, cres, nrec, nops, ncommit, handedBy,
                   syncDone, pendingAtLock, sendTo>>
    /\ UNCHANGED NotCoal

\* InitiateShutdown starts its goroutine.
InitiateShutdown ==
    /\ cpc[Shut] = "off"
    /\ cpc' = [cpc EXCEPT ![Shut] = "glock"]
    /\ UNCHANGED <<globlock, treelock, opened, exists, store, storeNonNil, sigEC, chanbuf,
                   nch, cop, ck, crecs, creached, cres, nrec, nops, ncommit, handedBy,
                   syncDone, pendingAtLock, sendTo>>
    /\ UNCHANGED NotCoal

\* q.globlock.Lock(), never released; the loop over q.openTrees follows.
shutdownLock ==
    /\ cpc[Shut] = "glock"
    /\ globlock = NoOne
    /\ globlock' = Shut
    /\ cpc' = [cpc EXCEPT ![Shut] = IF opened THEN "check" ELSE "close"]
    /\ UNCHANGED <<treelock, opened, exists, store, storeNonNil, sigEC, chanbuf,
                   nch, cop, ck, crecs, creached, cres, nrec, nops, ncommit, handedBy,
                   syncDone, pendingAtLock, sendTo>>
    /\ UNCHANGED NotCoal

\* close(rv)
shutdownClose ==
    /\ cpc[Shut] = "close"
    /\ cpc' = [cpc EXCEPT ![Shut] = "closed"]
    /\ UNCHANGED <<globlock, treelock, opened, exists, store, storeNonNil, sigEC, chanbuf,
                   nch, cop, ck, crecs, creached, cres, nrec, nops, ncommit, handedBy,
                   syncDone, pendingAtLock, sendTo>>
    /\ UNCHANGED NotCoal

CoalNext ==
    \/ \E c \in Clients :
         \/ startCall(c)
         \/ getTreeLock(c)
         \/ getTree(c)
         \/ mtxLock(c)
         \/ insertAppend(c)
         \/ deleteRange(c)
    \/ \E g \in Goroutines :
         \/ checkStore(g)
         \/ signal(g)
         \/ commitEnter(g)
         \/ commitHand(g)
         \/ commitClear(g)
         \/ mtxUnlock(g)
    \/ \E k \in 1..MaxBatches :
         \/ timerExpire(k)
         \/ timerAbort(k)
         \/ timerLock(k)
    \/ InitiateShutdown
    \/ shutdownLock
    \/ shutdownClose

(***************************************************************************)
(* Read path: obtainChunk's single-flight gate, rawObtainChunk, and the    *)
(* read cache, for one 1 MiB chunk of one stream.  The content of the      *)
(* chunk is named by the number of writes the object has received.         *)
(***************************************************************************)
\* Concurrent callers of obtainChunk for the chunk.
NumReaders == 2
\* Flushes that rewrite the chunk, and evictions of it, in one behaviour.
MaxFlush == 1
MaxEvict == 1

Readers == 1..NumReaders
Absent == 0 - 1

ChunkInit ==
    /\ objVer = 0
    /\ cachedVer = Absent
    /\ chunklock = NoOne
    /\ gateOpen = FALSE
    /\ gate = <<>>
    /\ rpc = [r \in Readers |-> "idle"]
    /\ fpc = [r \in Readers |-> "none"]
    /\ bslice = [r \in Readers |-> Absent]
    /\ rvc = [r \in Readers |-> <<>>]
    /\ rgot = [r \in Readers |-> Absent]
    /\ storeReads = 0
    /\ drops = 0
    /\ evicts = 0
    /\ conc = FALSE
    /\ wpc = "idle"

\* sp.rcache.cacheGet(address): the cached chunk, or nil.
cacheGet == cachedVer

\* sp.rcache.cachePut(address, chunk)
cachePut(chunk) == chunk

\* sp.rcache.cacheInvalidate(address): the entry is removed.
cacheInvalidate == Absent

InCall(r) == rpc[r] \notin {"idle", "done"}

\* A caller enters obtainChunk.
obtainChunkCall(r) ==
    /\ rpc[r] = "idle"
    /\ rpc' = [rpc EXCEPT ![r] = "cacheGet"]
    /\ conc' = (conc \/ \E o \in Readers \ {r} : InCall(o))
    /\ UNCHANGED <<objVer, cachedVer, chunklock, gateOpen, gate, fpc, bslice, rvc, rgot,
                   storeReads, drops, evicts, wpc>>
    /\ UNCHANGED NotChunk

\* obtainChunk, lines 485-488: a cached chunk is returned at once.
obtainChunkGet(r) ==
    /\ rpc[r] = "cacheGet"
    /\ IF cacheGet # Absent
       THEN /\ rgot' = [rgot EXCEPT ![r] = cacheGet]
            /\ rpc' = [rpc EXCEPT ![r] = "done"]
       ELSE /\ rpc' = [rpc EXCEPT ![r] = "lock"]
            /\ UNCHANGED rgot
    /\ UNCHANGED <<objVer, cachedVer, chunklock, gateOpen, gate, fpc, bslice, rvc,
                   storeReads, drops, evicts, conc, wpc>>
    /\ UNCHANGED NotChunk

\* obtainChunk, line 491: sp.chunklock.Lock()
obtainChunkLock(r) ==
    /\ rpc[r] = "lock"
    /\ chunklock = NoOne
    /\ chunklock' = r
    /\ rpc' = [rpc EXCEPT ![r] = "register"]
    /\ UNCHANGED <<objVer, cachedVer, gateOpen, gate, fpc, bslice, rvc, rgot,
                   storeReads, drops, evicts, conc, wpc>>
    /\ UNCHANGED NotChunk

\* obtainChunk, lines 492-512: join the waiters of the entry, or make the
\* entry and start the fetching goroutine; unlock.
obtainChunkRegister(r) ==
    /\ rpc[r] = "register"
    /\ IF gateOpen
       THEN /\ gate' = Append(gate, r)
            /\ UNCHANGED <<gateOpen, fpc>>
       ELSE /\ gate' = <<r>>
            /\ gateOpen' = TRUE
            /\ fpc' = [fpc EXCEPT ![r] = "get"]
    /\ chunklock' = NoOne
    /\ rpc' = [rpc EXCEPT ![r] = "wait"]
    /\ UNCHANGED <<objVer, cachedVer, bslice, rvc, rgot, storeReads, drops, evicts,
                   conc, wpc>>
    /\ UNCHANGED NotChunk

\* obtainChunk, line 513: rv := <-rvc
obtainChunkRecv(r) ==
    /\ rpc[r] = "wait"
    /\ rvc[r] # <<>>
    /\ rgot' = [rgot EXCEPT ![r] = Head(rvc[r])]
    /\ rvc' = [rvc EXCEPT ![r] = Tail(@)]
    /\ rpc' = [rpc EXCEPT ![r] = "done"]
    /\ UNCHANGED <<objVer, cachedVer, chunklock, gateOpen, gate, fpc, bslice,
                   storeReads, drops, evicts, conc, wpc>>
    /\ UNCHANGED NotChunk

\* rawObtainChunk without the second look at the cache: every fetch reads
\* the object store.
rawObtainChunkNoLookup(r) ==
    /\ fpc' = [fpc EXCEPT ![r] = "read"]
    /\ UNCHANGED bslice

\* rawObtainChunk, lines 465-466: the cache is looked up again; only a miss
\* goes to the object store.
rawObtainChunk(r) ==
    IF cacheGet # Absent
    THEN /\ bslice' = [bslice EXCEPT ![r] = cacheGet]
         /\ fpc' = [fpc EXCEPT ![r] = "lock"]
    ELSE /\ fpc' = [fpc EXCEPT ![r] = "read"]
         /\ UNCHANGED bslice

fetchGet(r) ==
    /\ fpc[r] = "get"
    /\ rawObtainChunk(r)
    /\ UNCHANGED <<objVer, cachedVer, chunklock, gateOpen, gate, rpc, rvc, rgot,
                   storeReads, drops, evicts, conc, wpc>>
    /\ UNCHANGED NotChunk

\* rawObtainChunk, lines 467-478: sp.rh[rhidx].Read(oid, chunk, offset)
fetchRead(r) ==
    /\ fpc[r] = "read"
    /\ bslice' = [bslice EXCEPT ![r] = objVer]
    /\ storeReads' = storeReads + 1
    /\ fpc' = [fpc EXCEPT ![r] = "put"]
    /\ UNCHANGED <<objVer, cachedVer, chunklock, gateOpen, gate, rpc, rvc, rgot,
                   drops, evicts, conc, wpc>>
    /\ UNCHANGED NotChunk

\* rawObtainChunk, line 479: sp.rcache.cachePut(address, chunk)
fetchPut(r) ==
    /\ fpc[r] = "put"
    /\ cachedVer' = cachePut(bslice[r])
    /\ fpc' = [fpc EXCEPT ![r] = "lock"]
    /\ UNCHANGED <<objVer, chunklock, gateOpen, gate, rpc, bslice, rvc, rgot,
                   storeReads, drops, evicts, conc, wpc>>
    /\ UNCHANGED NotChunk

\* obtainChunk's goroutine, line 501: sp.chunklock.Lock()
fetchLock(r) ==
    /\ fpc[r] = "lock"
    /\ chunklock = NoOne
    /\ chunklock' = NumReaders + r
    /\ fpc' = [fpc EXCEPT ![r] = "fanout"]
    /\ UNCHANGED <<objVer, cachedVer, gateOpen, gate, rpc, bslice, rvc, rgot,
                   storeReads, drops, evicts, conc, wpc>>
    /\ UNCHANGED NotChunk

\* A fan-out that sends the chunk to the first channel of the entry only.
fetchFanoutFirstOnly(r) ==
    /\ fpc[r] = "fanout"
    /\ IF ~gateOpen
       THEN /\ fpc' = [fpc EXCEPT ![r] = "panic"]
            /\ UNCHANGED <<rvc, gate, gateOpen, chunklock>>
       ELSE /\ rvc' = [w \in Readers |->
                         IF w = Head(gate) THEN Append(rvc[w], bslice[r]) ELSE rvc[w]]
            /\ gate' = <<>>
            /\ gateOpen' = FALSE
            /\ chunklock' = NoOne
            /\ fpc' = [fpc EXCEPT ![r] = "done"]
    /\ UNCHANGED <<objVer, cachedVer, rpc, bslice, rgot, storeReads, drops, evicts,
                   conc, wpc>>
    /\ UNCHANGED NotChunk

\* obtainChunk's goroutine, lines 502-510: a missing entry panics; otherwise
\* every waiter's channel gets the chunk, the entry is deleted, unlock.
fetchFanout(r) ==
    /\ fpc[r] = "fanout"
    /\ IF ~gateOpen
       THEN /\ fpc' = [fpc EXCEPT ![r] = "panic"]
            /\ UNCHANGED <<rvc, gate, gateOpen, chunklock>>
       ELSE /\ rvc' = [w \in Readers |->
                         IF w \in Range(gate) THEN Append(rvc[w], bslice[r]) ELSE rvc[w]]
            /\ gate' = <<>>
            /\ gateOpen' = FALSE
            /\ chunklock' = NoOne
            /\ fpc' = [fpc EXCEPT ![r] = "done"]
    /\ UNCHANGED <<objVer, cachedVer, rpc, bslice, rgot, storeReads, drops, evicts,
                   conc, wpc>>
    /\ UNCHANGED NotChunk

\* flushWrite, line 143: seg.h.Write(oid, seg.wcache, offset)
flushWriteObject ==
    /\ wpc = "idle"
    /\ objVer < MaxFlush
    /\ objVer' = objVer + 1
    /\ wpc' = "invalidate"
    /\ UNCHANGED <<cachedVer, chunklock, gateOpen, gate, rpc, fpc, bslice, rvc, rgot,
                   storeReads, drops, evicts, conc>>
    /\ UNCHANGED NotChunk

\* flushWrite, lines 145-147: cacheInvalidate of the chunk.
flushWriteInvalidate ==
    /\ wpc = "invalidate"
    /\ cachedVer' = cacheInvalidate
    /\ drops' = IF cachedVer # Absent THEN drops + 1 ELSE drops
    /\ wpc' = "idle"
    /\ UNCHANGED <<objVer, chunklock, gateOpen, gate, rpc, fpc, bslice, rvc, rgot,
                   storeReads, evicts, conc>>
    /\ UNCHANGED NotChunk

\* The cache evicts the chunk (the least recently used entry goes when a
\* put of another chunk overflows the cache).
cacheEvict ==
    /\ cachedVer # Absent
    /\ evicts < MaxEvict
    /\ cachedVer' = Absent
    /\ drops' = drops + 1
    /\ evicts' = evicts + 1
    /\ UNCHANGED <<objVer, chunklock, gateOpen, gate, rpc, fpc, bslice, rvc, rgot,
                   storeReads, conc, wpc>>
    /\ UNCHANGED NotChunk

ChunkNext ==
    \/ \E r \in Readers :
         \/ obtainChunkCall(r)
         \/ obtainChunkGet(r)
         \/ obtainChunkLock(r)
         \/ obtainChunkRegister(r)
         \/ obtainChunkRecv(r)
         \/ fetchGet(r)
         \/ fetchRead(r)
         \/ fetchPut(r)
         \/ fetchLock(r)
         \/ fetchFanout(r)
    \/ flushWriteObject
    \/ flushWriteInvalidate
    \/ cacheEvict

(***************************************************************************)
(* Segment writer and blob reader of one node (node 1) for one stream:     *)
(* LockSegment, Write, flushWrite, Flush, Unlock and Read.  A blob is      *)
(* named by the number of the Write call that wrote it; its bytes are the  *)
(* two-byte length prefix and the payload.                                 *)
(***************************************************************************)
\* Write calls and LockSegment calls in one behaviour.
MaxWrites == 2
MaxSegs == 2
\* A payload of ordinary size.
SmallLen == 300

Writer == 1

\* Payload lengths handed to Write: none of them is refused.
PayloadLens ==
    {0, SmallLen, MAX_EXPECTED_OBJECT_SIZE, MAX_EXPECTED_OBJECT_SIZE + 1, WCACHE_SIZE}

\* Offsets in an object at which an earlier segment of the stream can have
\* stopped and been cached: sums of blob sizes below WORTH_CACHING that the
\* boundary test of Write lets stand.
LastNaddrOffset == OFFSET_MASK - MAX_EXPECTED_OBJECT_SIZE - 2
CachedOffsets ==
    {R_CHUNKSIZE - SmallLen, R_CHUNKSIZE - 1,
     LastNaddrOffset - SmallLen - 2, LastNaddrOffset}

ObjectOf(a) == a \div ADDR_OBJ_SIZE        \* address >> 24
ChunkOffset(a) == a % R_CHUNKSIZE          \* address & R_OFFSETMASK
ChunkBase(a) == a - (a % R_CHUNKSIZE)      \* address & R_ADDRMASK
Min(a, b) == IF a < b THEN a ELSE b

NoRead == [idx |-> 0, ok |-> FALSE, len |-> 0, tag |-> 0]

\* No segment has been locked yet on a node that has just started.
SegFresh ==
    /\ segaddrcache = {}
    /\ AllocInitFor({Writer})

\* The allocator of the node after Initialize, the first allocation taken.
AllocAfterFirst ==
    /\ allocator = CreateDatabaseAddr + ADDR_LOCK_SIZE
    /\ alloc_lock = 0
    /\ apc = [n \in Nodes |-> IF n = Writer THEN "provide" ELSE "off"]
    /\ le = [n \in Nodes |-> IF n = Writer THEN CreateDatabaseAddr ELSE 0]
    /\ arv = [n \in Nodes |-> IF n = Writer THEN CreateDatabaseAddr ELSE 0]
    /\ acaller = [n \in Nodes |-> "Initialize"]
    /\ ptr = [n \in Nodes |-> IF n = Writer THEN CreateDatabaseAddr + ADDR_OBJ_SIZE ELSE 0]
    /\ abase = [n \in Nodes |-> IF n = Writer THEN CreateDatabaseAddr ELSE 0]
    /\ alloc = [n \in Nodes |-> <<>>]
    /\ given = [n \in Nodes |-> IF n = Writer THEN <<CreateDatabaseAddr>> ELSE <<>>]

\* An earlier segment of the stream took the node's first allocation, wrote
\* up to offset o of that object and was unlocked.
SegResumed(o) ==
    /\ segaddrcache = {CreateDatabaseAddr + o}
    /\ AllocAfterFirst

\* The node has used up the range it reserved at start; the reservation
\* that followed failed, so provideAllocs went on with the range at 0.  A
\* segment of the stream took the allocation 0, wrote up to offset o and
\* was unlocked.  given lists what was sent since that range began.
SegResumedAtZero(o) ==
    /\ segaddrcache = {o}
    /\ allocator = CreateDatabaseAddr + ADDR_LOCK_SIZE
    /\ alloc_lock = 0
    /\ apc = [n \in Nodes |-> IF n = Writer THEN "provide" ELSE "off"]
    /\ le = [n \in Nodes |-> IF n = Writer THEN CreateDatabaseAddr ELSE 0]
    /\ arv = [n \in Nodes |-> 0]
    /\ acaller = [n \in Nodes |-> IF n = Writer THEN "provideAllocs" ELSE "Initialize"]
    /\ ptr = [n \in Nodes |-> IF n = Writer THEN ADDR_OBJ_SIZE ELSE 0]
    /\ abase = [n \in Nodes |-> 0]
    /\ alloc = [n \in Nodes |-> <<>>]
    /\ given = [n \in Nodes |-> IF n = Writer THEN <<0>> ELSE <<>>]

\* The node has sent every allocation of the range it reserved at start;
\* the reservation that followed failed, so provideAllocs has set sp.ptr
\* and its base to 0 and is about to send 0.
AllocAfterFailedReservation ==
    /\ allocator = CreateDatabaseAddr + ADDR_LOCK_SIZE
    /\ alloc_lock = 0
    /\ apc = [n \in Nodes |-> IF n = Writer THEN "provide" ELSE "off"]
    /\ le = [n \in Nodes |-> IF n = Writer THEN CreateDatabaseAddr ELSE 0]
    /\ arv = [n \in Nodes |-> 0]
    /\ acaller = [n \in Nodes |-> IF n = Writer THEN "provideAllocs" ELSE "Initialize"]
    /\ ptr = [n \in Nodes |-> 0]
    /\ abase = [n \in Nodes |-> 0]
    /\ alloc = [n \in Nodes |-> <<>>]
    /\ given = [n \in Nodes |-> <<>>]

SegInit ==
    /\ segpc = "unlocked"
    /\ seg_ptr = 0
    /\ seg_base = 0
    /\ seg_naddr = 0
    /\ wcache = <<>>
    /\ wcache_base = 0
    /\ objstore = {}
    /\ written = <<>>
    /\ rd = NoRead
    /\ nsegs = 0
    /\ resumed = FALSE

SegIdle == SegInit /\ segaddrcache = {}

CallInit == wres = "none"

RECURSIVE WcacheLen(_)
\* len(seg.wcache)
WcacheLen(w) ==
    IF w = <<>> THEN 0 ELSE w[1].len + 2 + WcacheLen(Tail(w))

\* seg.h.Write(oid, seg.wcache, offset): the bytes of the buffer replace what
\* the object held at those offsets.
ObjectWrite(st, w, base) ==
    LET oid == ObjectOf(base)
        last == base + WcacheLen(w) - 1
        kept == {b \in st : ~(b.oid = oid /\ b.addr <= last /\ b.addr + b.len + 1 >= base)}
    IN kept \cup {[addr |-> w[i].addr, len |-> w[i].len, tag |-> w[i].tag, oid |-> oid] :
                    i \in DOMAIN w}

\* flushWrite: nothing for an empty buffer, else the object store after the
\* write.
flushWrite(st, w, base) ==
    IF w = <<>> THEN st ELSE ObjectWrite(st, w, base)

\* LockSegment: one allocation is taken from sp.alloc; the segment starts at
\* the cached address of the stream if there is one, which is then deleted.
LockSegment ==
    /\ segpc = "unlocked"
    /\ nsegs < MaxSegs
    /\ alloc[Writer] # <<>>
    /\ alloc' = [alloc EXCEPT ![Writer] = Tail(@)]
    /\ seg_ptr' = Head(alloc[Writer])
    /\ IF segaddrcache # {}
       THEN /\ seg_base' = CHOOSE a \in segaddrcache : TRUE
            /\ resumed' = TRUE
       ELSE /\ seg_base' = Head(alloc[Writer])
            /\ resumed' = FALSE
    /\ seg_naddr' = seg_base'
    /\ wcache_base' = seg_base'
    /\ wcache' = <<>>
    /\ segaddrcache' = {}
    /\ segpc' = "locked"
    /\ nsegs' = nsegs + 1
    /\ rd' = NoRead
    /\ UNCHANGED <<objstore, written>>
    /\ UNCHANGED <<allocator, alloc_lock, apc, le, arv, acaller, ptr, abase, given>>
    /\ UNCHANGED NotSegAlloc

\* The boundary test of Write without room for a blob of the largest size:
\* the next address only has to be in the object itself.
NeedsNewObjectNoRoom(naddr, address) ==
    ObjectOf(naddr) # ObjectOf(address)

\* Write, line 188:
\* ((naddr + MAX_EXPECTED_OBJECT_SIZE + 2) >> 24) != (address >> 24)
NeedsNewObject(naddr, address) ==
    ObjectOf(naddr + MAX_EXPECTED_OBJECT_SIZE + 2) # ObjectOf(address)

\* Write(uuid, address, data) with address = seg.naddr and len(data) = n.
Write(n) ==
    /\ segpc = "locked"
    /\ Len(written) < MaxWrites
    /\ LET address == seg_naddr
           full == WcacheLen(wcache) + n + 2 > WCACHE_SIZE
           st1 == IF full THEN flushWrite(objstore, wcache, wcache_base) ELSE objstore
           w1 == IF full THEN <<>> ELSE wcache
           base1 == IF full /\ wcache # <<>> THEN seg_naddr ELSE wcache_base
           w2 == Append(w1, [addr |-> address, len |-> n, tag |-> Len(written) + 1])
           naddr == address + n + 2
       IN IF NeedsNewObject(naddr, address)
          THEN /\ alloc[Writer] # <<>>
               /\ alloc' = [alloc EXCEPT ![Writer] = Tail(@)]
               /\ seg_naddr' = Head(alloc[Writer])
               /\ objstore' = flushWrite(st1, w2, base1)
               /\ wcache' = <<>>
               /\ wcache_base' = Head(alloc[Writer])
               /\ written' = Append(written, [addr |-> address, len |-> n,
                                              ret |-> Head(alloc[Writer]), seg |-> nsegs,
                                              cached |-> resumed, synced |-> FALSE])
          ELSE /\ seg_naddr' = naddr
               /\ objstore' = st1
               /\ wcache' = w2
               /\ wcache_base' = base1
               /\ written' = Append(written, [addr |-> address, len |-> n,
                                              ret |-> naddr, seg |-> nsegs,
                                              cached |-> resumed, synced |-> FALSE])
               /\ UNCHANGED alloc
    /\ rd' = NoRead
    /\ UNCHANGED <<segpc, seg_ptr, seg_base, segaddrcache, nsegs, resumed>>
    /\ UNCHANGED <<allocator, alloc_lock, apc, le, arv, acaller, ptr, abase, given>>
    /\ UNCHANGED NotSegAlloc

\* Write(uuid, address, data) with address # seg.naddr, lines 166-168:
\* logger.Panic("Non-sequential write"); the call does not return.
WriteNonSequential(address) ==
    /\ segpc = "locked"
    /\ address # seg_naddr
    /\ wres' = "panic"
    /\ segpc' = "panic"
    /\ UNCHANGED <<seg_ptr, seg_base, seg_naddr, wcache, wcache_base, segaddrcache,
                   objstore, written, rd, nsegs, resumed>>
    /\ UNCHANGED allocVars
    /\ UNCHANGED <<coalVars, chunkVars, metaVars, sbVars, cacheVars, poolVars>>

\* The blobs of the locked segment have now seen a Flush or an Unlock.
Synced(ws) ==
    [i \in DOMAIN ws |-> IF ws[i].seg = nsegs THEN [ws[i] EXCEPT !.synced = TRUE] ELSE ws[i]]

\* Flush(): the body is empty.
SegmentFlush ==
    /\ segpc = "locked"
    /\ \E i \in DOMAIN written : written[i].seg = nsegs /\ ~written[i].synced
    /\ written' = Synced(written)
    /\ rd' = NoRead
    /\ UNCHANGED <<segpc, seg_ptr, seg_base, seg_naddr, wcache, wcache_base, segaddrcache,
                   objstore, nsegs, resumed>>
    /\ UNCHANGED allocVars
    /\ UNCHANGED NotSegAlloc

\* Unlock(): flushWrite, then the next address is cached when its offset is
\* below WORTH_CACHING.
SegmentUnlock ==
    /\ segpc = "locked"
    /\ objstore' = flushWrite(objstore, wcache, wcache_base)
    /\ wcache' = <<>>
    /\ wcache_base' = IF wcache = <<>> THEN wcache_base ELSE seg_naddr
    /\ segaddrcache' = IF seg_naddr % ADDR_OBJ_SIZE < WORTH_CACHING
                       THEN {seg_naddr} ELSE segaddrcache
    /\ written' = Synced(written)
    /\ segpc' = "unlocked"
    /\ rd' = NoRead
    /\ UNCHANGED <<seg_ptr, seg_base, seg_naddr, nsegs, resumed>>
    /\ UNCHANGED allocVars
    /\ UNCHANGED NotSegAlloc

\* Read(uuid, a, buffer) against the object store st, with a buffer that is
\* large enough: what it returns, or ok = FALSE when it panics.
ReadBlob(st, a) ==
    LET here == {b \in st : b.addr = a /\ b.oid = ObjectOf(a)}
        b == CHOOSE x \in here : TRUE
        len1 == R_CHUNKSIZE - ChunkOffset(a)
        split == len1 < 2
        next == ChunkBase(a + R_CHUNKSIZE)
        ln == (b.len % 256) + ((b.len \div 256) % 256) * 256
        chunk1 == IF split THEN len1 - 1 ELSE len1 - 2
        copied == IF chunk1 > 0 THEN Min(ln, chunk1) ELSE 0
        second == split \/ copied < ln
        panic == [ok |-> FALSE, len |-> 0, tag |-> 0]
    IN IF here = {} THEN panic
       ELSE IF ln > MAX_EXPECTED_OBJECT_SIZE THEN panic
       ELSE IF second /\ ObjectOf(next) # ObjectOf(a) THEN panic
       ELSE IF ln < 2 THEN panic
       ELSE [ok |-> TRUE, len |-> ln, tag |-> b.tag]

\* A reader reads the blob of the i-th Write call at the address that call
\* was given, once the segment of the blob has seen a Flush or an Unlock.
Read(i) ==
    /\ i \in DOMAIN written
    /\ written[i].synced
    /\ LET r == ReadBlob(objstore, written[i].addr)
       IN rd' = [idx |-> i, ok |-> r.ok, len |-> r.len, tag |-> r.tag]
    /\ rd' # rd
    /\ UNCHANGED <<segpc, seg_ptr, seg_base, seg_naddr, wcache, wcache_base, segaddrcache,
                   objstore, written, nsegs, resumed>>
    /\ UNCHANGED allocVars
    /\ UNCHANGED NotSegAlloc

SegNext ==
    \/ LockSegment
    \/ \E n \in PayloadLens : Write(n)
    \/ \E d \in {1, SmallLen} : WriteNonSequential(seg_naddr + d)
    \/ SegmentFlush
    \/ SegmentUnlock
    \/ \E i \in 1..MaxWrites : Read(i)
    \/ AllocStep(Writer)

(***************************************************************************)
(* Stream metadata of the ceph provider: CreateStream, GetStreamInfo,      *)
(* SetStreamAnnotation and GetStreamAnnotation.  Strings are sequences of  *)
(* byte values.                                                            *)
(***************************************************************************)
\* Nodes and concurrent callers of the metadata calls.
MetaNumNodes == 2
MetaNumClients == 2
\* Calls started, and processes stopped, in one behaviour.
MaxMetaOps == 3
MaxStops == 1
\* The largest annotation version a call is allowed to start from.
MaxAver == 3

MetaNodes == 1..MetaNumNodes
MetaClients == 1..MetaNumClients

\* The bytes '@' and ';' of the formats "%s@%s@" and "%s;%s".
AtSign == 64
Semicolon == 59

\* "a", "b": tag keys.  "", "x", "@": tag values.  "c", "C": collections.
KeyA == <<97>>
KeyB == <<98>>
ValEmpty == <<>>
ValX == <<120>>
ValAt == <<AtSign>>
ColC == <<99>>
ColUpper == <<67>>

UUIDs == {1, 2}

IsLower(b) == b >= 97 /\ b <= 122
IsUpper(b) == b >= 65 /\ b <= 90
IsDigit(b) == b >= 48 /\ b <= 57

\* collectionRegex ^[a-z][a-z0-9_.]{0,254}$
isValidCollection(s) ==
    /\ Len(s) >= 1
    /\ Len(s) <= 255
    /\ IsLower(s[1])
    /\ \A i \in DOMAIN s : IsLower(s[i]) \/ IsDigit(s[i]) \/ s[i] = 95 \/ s[i] = 46

\* keysRegex = collectionRegex
isValidTagKey(s) == isValidCollection(s)

\* A check of tag values that lets every string through.
isValidTagValueAny(s) == TRUE

\* valsRegex ^[a-zA-Z0-9 .-]*$
isValidTagValue(s) ==
    \A i \in DOMAIN s :
        IsLower(s[i]) \/ IsUpper(s[i]) \/ IsDigit(s[i]) \/ s[i] = 32 \/ s[i] = 46 \/ s[i] = 45

\* The tag maps handed to CreateStream: three that pass the checks, the
\* tag string of each a prefix of the next, and one with the value "@".
GoodTagMaps ==
    {<<>>,
     [k \in {KeyA} |-> ValX],
     [k \in {KeyA, KeyB} |-> IF k = KeyA THEN ValX ELSE ValEmpty]}
BadTagMap == [k \in {KeyB} |-> ValAt]
TagMaps == GoodTagMaps \cup {BadTagMap}

\* Byte-wise order of strings, as sort.Strings orders them.
RECURSIVE StrLess(_, _)
StrLess(s, t) ==
    IF t = <<>> THEN FALSE
    ELSE IF s = <<>> THEN TRUE
    ELSE IF s[1] # t[1] THEN s[1] < t[1]
    ELSE StrLess(Tail(s), Tail(t))

RECURSIVE JoinSorted(_)
\* sort.Strings(tl); strings.Join(tl, "")
JoinSorted(S) ==
    IF S = {} THEN <<>>
    ELSE LET m == CHOOSE x \in S : \A y \in S \ {x} : StrLess(x, y)
         IN m \o JoinSorted(S \ {m})

\* The canonical tag string: every tag as "%s@%s@", sorted, joined.
TagKey(tags) ==
    JoinSorted({k \o <<AtSign>> \o tags[k] \o <<AtSign>> : k \in DOMAIN tags})

\* fmt.Sprintf("%s;%s", collection, tlkey)
StreamAttr(collection, tlkey) == collection \o <<Semicolon>> \o tlkey

IsPrefix(p, s) == Len(p) <= Len(s) /\ SubSeq(s, 1, Len(p)) = p

RECURSIVE Split(_, _)
\* strings.Split(s, sep) for a one-byte separator.
Split(s, sep) ==
    IF \A i \in DOMAIN s : s[i] # sep THEN <<s>>
    ELSE LET i == CHOOSE j \in DOMAIN s : s[j] = sep /\ \A h \in 1..(j - 1) : s[h] # sep
         IN <<SubSeq(s, 1, i - 1)>> \o Split(SubSeq(s, i + 1, Len(s)), sep)

\* strings.SplitN(s, sep, 2)
SplitN2(s, sep) ==
    IF \A i \in DOMAIN s : s[i] # sep THEN <<s>>
    ELSE LET i == CHOOSE j \in DOMAIN s : s[j] = sep /\ \A h \in 1..(j - 1) : s[h] # sep
         IN <<SubSeq(s, 1, i - 1), SubSeq(s, i + 1, Len(s))>>

\* GetStreamInfo, lines 659-672: the collection and tag map parsed from the
\* stream attribute; ok is FALSE where the code indexes out of range.
ParseStreamAttr(tdata) ==
    LET tparts == SplitN2(tdata, Semicolon)
        all == Split(tparts[2], AtSign)
        tags == IF tparts[2] = <<>> THEN <<>> ELSE SubSeq(all, 1, Len(all) - 1)
        keys == {tags[i] : i \in {j \in DOMAIN tags : j % 2 = 1}}
        last(k) == CHOOSE i \in DOMAIN tags :
                      /\ i % 2 = 1 /\ tags[i] = k
                      /\ \A j \in DOMAIN tags : (j % 2 = 1 /\ tags[j] = k) => j <= i
    IN IF Len(tparts) < 2 \/ Len(tags) % 2 = 1
       THEN [ok |-> FALSE, collection |-> <<>>, tags |-> <<>>]
       ELSE [ok |-> TRUE, collection |-> tparts[1],
             tags |-> [k \in keys |-> tags[last(k) + 1]]]

\* Annotations: two of ordinary size and one longer than
\* bprovider.MaxAnnotationSize.
Ann1 == [id |-> 1, big |-> FALSE]
Ann2 == [id |-> 2, big |-> FALSE]
AnnBig == [id |-> 3, big |-> TRUE]
Anns == {Ann1, Ann2, AnnBig}
NoAnn == [id |-> 0, big |-> FALSE]

\* len(annotation) > bprovider.MaxAnnotationSize
TooBig(a) == a.big

\* bprovider.SpecialVersionCreated, the version of a created, empty stream.
SpecialVersionCreated == 1

NoArg == [op |-> "none", node |-> 0, uuid |-> 0, col |-> <<>>, tags |-> <<>>,
          ann |-> NoAnn, aver |-> 0, partial |-> FALSE]
NoRes == [err |-> "none", col |-> <<>>, tags |-> <<>>, ver |-> 0, ann |-> NoAnn,
          streams |-> {}]
Err(e) == [NoRes EXCEPT !.err = e]

MetaInit ==
    /\ owner = [u \in UUIDs |-> ((u - 1) % MetaNumNodes) + 1]
    /\ mver = [u \in UUIDs |-> 0]
    /\ mstream = [u \in UUIDs |-> [present |-> FALSE, data |-> <<>>]]
    /\ colmap = {}
    /\ colindex = {}
    /\ mann = [u \in UUIDs |-> [present |-> FALSE, ver |-> 0, ann |-> NoAnn]]
    /\ annotationMu = [n \in MetaNodes |-> 0]
    /\ mpc = [c \in MetaClients |-> "idle"]
    /\ marg = [c \in MetaClients |-> NoArg]
    /\ mres = [c \in MetaClients |-> NoRes]
    /\ existingAver = [c \in MetaClients |-> 0]
    /\ created = [u \in UUIDs |-> [set |-> FALSE, col |-> <<>>, tags |-> <<>>]]
    /\ lastSet = [u \in UUIDs |-> [set |-> FALSE, aver |-> 0, ann |-> NoAnn, prev |-> 0]]
    /\ nmeta = 0
    /\ nstops = 0

MetaIdle == MetaInit

metaStore == <<mver, mstream, colmap, colindex, mann>>
metaHist == <<created, lastSet>>

\* What CreateStream is called with: arguments that pass every check, and
\* arguments that fail one of them.
CreateInputs ==
    {[col |-> ColC, tags |-> t, ann |-> Ann1] : t \in GoodTagMaps}
      \cup {[col |-> ColUpper, tags |-> <<>>, ann |-> Ann1],
            [col |-> ColC, tags |-> BadTagMap, ann |-> Ann1],
            [col |-> ColC, tags |-> <<>>, ann |-> AnnBig]}

\* A caller calls CreateStream on some node.
CreateStarts(c) ==
    \E u \in UUIDs, n \in MetaNodes, i \in CreateInputs :
      /\ marg' = [marg EXCEPT ![c] = [op |-> "CreateStream", node |-> n, uuid |-> u,
                                      col |-> i.col, tags |-> i.tags, ann |-> i.ann,
                                      aver |-> 0, partial |-> FALSE]]
      /\ mpc' = [mpc EXCEPT ![c] = "cEnter"]

\* The call of c is under way: it has no result yet.
CallStarted(c) ==
    /\ mres' = [mres EXCEPT ![c] = NoRes]
    /\ nmeta' = nmeta + 1
    /\ UNCHANGED <<owner, metaStore, annotationMu, existingAver, metaHist, nstops>>
    /\ UNCHANGED NotMeta

\* A caller starts CreateStream, GetStreamInfo, SetStreamAnnotation or
\* GetStreamAnnotation; the annotation calls are made on the node that
\* owns the stream.
metaCall(c) ==
    /\ mpc[c] = "idle"
    /\ nmeta < MaxMetaOps
    /\ \/ CreateStarts(c)
       \/ \E u \in UUIDs :
         \/ /\ marg' = [marg EXCEPT ![c] = [NoArg EXCEPT !.op = "GetStreamInfo",
                                                        !.node = owner[u], !.uuid = u]]
            /\ mpc' = [mpc EXCEPT ![c] = "info"]
         \/ \E v \in 0..MaxAver, a \in {Ann2, AnnBig} :
              /\ mann[u].ver < MaxAver
              /\ marg' = [marg EXCEPT ![c] = [NoArg EXCEPT !.op = "SetStreamAnnotation",
                                                          !.node = owner[u], !.uuid = u,
                                                          !.ann = a, !.aver = v]]
              /\ mpc' = [mpc EXCEPT ![c] = "sLock"]
         \/ /\ marg' = [marg EXCEPT ![c] = [NoArg EXCEPT !.op = "GetStreamAnnotation",
                                                        !.node = owner[u], !.uuid = u]]
            /\ mpc' = [mpc EXCEPT ![c] = "gAnn"]
    /\ CallStarted(c)

\* CreateStream, lines 717-725: the collection name, the cluster predicate
\* and the size of the annotation are checked before the mutex is taken.
createEnter(c) ==
    /\ mpc[c] = "cEnter"
    /\ LET a == marg[c]
           e == IF ~isValidCollection(a.col) THEN "InvalidCollection"
                ELSE IF owner[a.uuid] # a.node THEN "WrongEndpoint"
                ELSE IF TooBig(a.ann) THEN "AnnotationTooBig"
                ELSE "none"
       IN IF e # "none"
          THEN /\ mres' = [mres EXCEPT ![c] = Err(e)]
               /\ mpc' = [mpc EXCEPT ![c] = "idle"]
          ELSE /\ mpc' = [mpc EXCEPT ![c] = "cLock"]
               /\ UNCHANGED mres
    /\ UNCHANGED <<owner, metaStore, annotationMu, marg, existingAver, metaHist, nmeta, nstops>>
    /\ UNCHANGED NotMeta

\* annotationLock that does not wait for the mutex to be free.
annotationLockNoWait(c) ==
    /\ mpc[c] \in {"cLock", "sLock"}
    /\ annotationMu' = [annotationMu EXCEPT ![marg[c].node] = c]
    /\ mpc' = [mpc EXCEPT ![c] = IF mpc[c] = "cLock" THEN "cCheck" ELSE "sRead"]
    /\ UNCHANGED <<owner, metaStore, marg, mres, existingAver, metaHist, nmeta, nstops>>
    /\ UNCHANGED NotMeta

\* sp.annotationMu.Lock(), in CreateStream and SetStreamAnnotation.
annotationLock(c) ==
    /\ mpc[c] \in {"cLock", "sLock"}
    /\ annotationMu[marg[c].node] = 0
    /\ annotationMu' = [annotationMu EXCEPT ![marg[c].node] = c]
    /\ mpc' = [mpc EXCEPT ![c] = IF mpc[c] = "cLock" THEN "cCheck" ELSE "sRead"]
    /\ UNCHANGED <<owner, metaStore, marg, mres, existingAver, metaHist, nmeta, nstops>>
    /\ UNCHANGED NotMeta

\* h.ListOmapValues("col."+collection, "", tlkey, 10, ...): the entries of
\* the collection whose key starts with tlkey (the first ten of them).
Hits(col, tlkey) == {e \in colmap : e.col = col /\ IsPrefix(tlkey, e.key)}

\* createCheck without the test of the version attribute.
createCheckNoVersion(c) ==
    /\ mpc[c] = "cCheck"
    /\ LET a == marg[c]
           hits == Hits(a.col, TagKey(a.tags))
           e == IF \E k \in DOMAIN a.tags : ~isValidTagKey(k) THEN "InvalidTagKey"
                ELSE IF \E k \in DOMAIN a.tags : ~isValidTagValue(a.tags[k])
                     THEN "InvalidTagValue"
                ELSE IF hits # {} /\ (\E h \in hits : h.uuid = a.uuid) THEN "SameStream"
                ELSE IF hits # {} THEN "AmbiguousStream"
                ELSE "none"
       IN IF e # "none"
          THEN /\ mres' = [mres EXCEPT ![c] = Err(e)]
               /\ mpc' = [mpc EXCEPT ![c] = "idle"]
               /\ annotationMu' = [annotationMu EXCEPT ![a.node] = 0]
          ELSE /\ mpc' = [mpc EXCEPT ![c] = "cOmap"]
               /\ UNCHANGED <<mres, annotationMu>>
    /\ UNCHANGED <<owner, metaStore, marg, existingAver, metaHist, nmeta, nstops>>
    /\ UNCHANGED NotMeta

\* CreateStream, lines 731-779: tag keys and values are checked, then the
\* version attribute, then the entries of the collection.
createCheck(c) ==
    /\ mpc[c] = "cCheck"
    /\ LET a == marg[c]
           hits == Hits(a.col, TagKey(a.tags))
           e == IF \E k \in DOMAIN a.tags : ~isValidTagKey(k) THEN "InvalidTagKey"
                ELSE IF \E k \in DOMAIN a.tags : ~isValidTagValue(a.tags[k])
                     THEN "InvalidTagValue"
                ELSE IF mver[a.uuid] # 0 THEN "StreamExists"
                ELSE IF hits # {} /\ (\E h \in hits : h.uuid = a.uuid) THEN "SameStream"
                ELSE IF hits # {} THEN "AmbiguousStream"
                ELSE "none"
       IN IF e # "none"
          THEN /\ mres' = [mres EXCEPT ![c] = Err(e)]
               /\ mpc' = [mpc EXCEPT ![c] = "idle"]
               /\ annotationMu' = [annotationMu EXCEPT ![a.node] = 0]
          ELSE /\ mpc' = [mpc EXCEPT ![c] = "cOmap"]
               /\ UNCHANGED <<mres, annotationMu>>
    /\ UNCHANGED <<owner, metaStore, marg, existingAver, metaHist, nmeta, nstops>>
    /\ UNCHANGED NotMeta

\* h.SetOmap("col."+collection, {tlkey: uuid})
createSetOmap(c) ==
    /\ mpc[c] = "cOmap"
    /\ LET a == marg[c]
           key == TagKey(a.tags)
       IN colmap' = {e \in colmap : ~(e.col = a.col /\ e.key = key)}
                      \cup {[col |-> a.col, key |-> key, uuid |-> a.uuid]}
    /\ mpc' = [mpc EXCEPT ![c] = "cAnn"]
    /\ UNCHANGED <<owner, mver, mstream, colindex, mann, annotationMu, marg, mres,
                   existingAver, metaHist, nmeta, nstops>>
    /\ UNCHANGED NotMeta

\* h.WriteFull(aoid, verann), line 791: version 1 and the annotation; what
\* the call returns is not looked at.
createWriteAnn(c) ==
    /\ mpc[c] = "cAnn"
    /\ \E ok \in BOOLEAN :
         IF ok
         THEN /\ mann' = [mann EXCEPT ![marg[c].uuid] =
                            [present |-> TRUE, ver |-> 1, ann |-> marg[c].ann]]
              /\ lastSet' = [lastSet EXCEPT ![marg[c].uuid].set = FALSE]
         ELSE UNCHANGED <<mann, lastSet>>
    /\ mpc' = [mpc EXCEPT ![c] = "cIndex"]
    /\ UNCHANGED <<owner, mver, mstream, colmap, colindex, annotationMu, marg, mres,
                   existingAver, created, nmeta, nstops>>
    /\ UNCHANGED NotMeta

\* h.SetOmap("index.<partition>", {collection: "."})
createSetIndex(c) ==
    /\ mpc[c] = "cIndex"
    /\ colindex' = colindex \cup {marg[c].col}
    /\ mpc' = [mpc EXCEPT ![c] = "cStream"]
    /\ UNCHANGED <<owner, mver, mstream, colmap, mann, annotationMu, marg, mres,
                   existingAver, metaHist, nmeta, nstops>>
    /\ UNCHANGED NotMeta

\* h.SetXattr(oid, "stream", collection;tlkey)
createSetStream(c) ==
    /\ mpc[c] = "cStream"
    /\ mstream' = [mstream EXCEPT ![marg[c].uuid] =
                     [present |-> TRUE,
                      data |-> StreamAttr(marg[c].col, TagKey(marg[c].tags))]]
    /\ mpc' = [mpc EXCEPT ![c] = "cVersion"]
    /\ UNCHANGED <<owner, mver, colmap, colindex, mann, annotationMu, marg, mres,
                   existingAver, metaHist, nmeta, nstops>>
    /\ UNCHANGED NotMeta

\* h.SetXattr(oid, "version", SpecialVersionCreated); return nil; the
\* deferred Unlock.
createSetVersion(c) ==
    /\ mpc[c] = "cVersion"
    /\ mver' = [mver EXCEPT ![marg[c].uuid] = SpecialVersionCreated]
    /\ created' = [created EXCEPT ![marg[c].uuid] =
                     [set |-> TRUE, col |-> marg[c].col, tags |-> marg[c].tags]]
    /\ mres' = [mres EXCEPT ![c] = Err("ok")]
    /\ mpc' = [mpc EXCEPT ![c] = "idle"]
    /\ annotationMu' = [annotationMu EXCEPT ![marg[c].node] = 0]
    /\ UNCHANGED <<owner, mstream, colmap, colindex, mann, marg, existingAver, lastSet,
                   nmeta, nstops>>
    /\ UNCHANGED NotMeta

\* The process of node n ends (a panic, or a stop from outside): its
\* callers do not return and its mutex is gone with it.
StoppedPc(n) ==
    [d \in MetaClients |-> IF marg[d].node = n /\ mpc[d] # "idle" THEN "idle" ELSE mpc[d]]
StoppedRes(n, c) ==
    [d \in MetaClients |->
        IF d = c THEN Err("panic")
        ELSE IF marg[d].node = n /\ mpc[d] # "idle" THEN Err("stopped")
        ELSE mres[d]]

\* GetStreamInfo: ListXattrs of the stream's meta object; no object gives
\* (nil, 0); the version is decoded from the "version" attribute and the
\* collection and tags from the "stream" attribute.
GetStreamInfo(c) ==
    /\ mpc[c] = "info"
    /\ LET u == marg[c].uuid
           p == ParseStreamAttr(mstream[u].data)
       IN IF ~mstream[u].present /\ mver[u] = 0
          THEN /\ mres' = [mres EXCEPT ![c] = Err("NotFound")]
               /\ mpc' = [mpc EXCEPT ![c] = "idle"]
               /\ UNCHANGED annotationMu
          ELSE IF mver[u] = 0 \/ ~mstream[u].present \/ ~p.ok
          THEN /\ mres' = StoppedRes(marg[c].node, c)
               /\ mpc' = StoppedPc(marg[c].node)
               /\ annotationMu' = [annotationMu EXCEPT ![marg[c].node] = 0]
          ELSE /\ mres' = [mres EXCEPT ![c] = [err |-> "ok", col |-> p.collection,
                                               tags |-> p.tags, ver |-> mver[u],
                                               ann |-> NoAnn]]
               /\ mpc' = [mpc EXCEPT ![c] = "idle"]
               /\ UNCHANGED annotationMu
    /\ UNCHANGED <<owner, metaStore, marg, existingAver, metaHist, nmeta, nstops>>
    /\ UNCHANGED NotMeta

\* SetStreamAnnotation, lines 867-882: the first 8 bytes of the annotation
\* object are read; no object is NoSuchStream; a version that is neither
\* the expected one nor asked for as 0 is AnnotationVersionMismatch.
setAnnotationRead(c) ==
    /\ mpc[c] = "sRead"
    /\ LET a == marg[c]
           e == IF ~mann[a.uuid].present THEN "NoSuchStream"
                ELSE IF mann[a.uuid].ver # a.aver /\ a.aver # 0
                     THEN "AnnotationVersionMismatch"
                ELSE "none"
       IN IF e # "none"
          THEN /\ mres' = [mres EXCEPT ![c] = Err(e)]
               /\ mpc' = [mpc EXCEPT ![c] = "idle"]
               /\ annotationMu' = [annotationMu EXCEPT ![a.node] = 0]
               /\ UNCHANGED existingAver
          ELSE /\ existingAver' = [existingAver EXCEPT ![c] = mann[a.uuid].ver]
               /\ mpc' = [mpc EXCEPT ![c] = "sWrite"]
               /\ UNCHANGED <<mres, annotationMu>>
    /\ UNCHANGED <<owner, metaStore, marg, metaHist, nmeta, nstops>>
    /\ UNCHANGED NotMeta

\* nextAver with the increment left out.
nextAverSame(existing) == existing

\* nextAver := existingAver + 1
nextAver(existing) == existing + 1

\* SetStreamAnnotation, lines 883-892: nextAver := existingAver + 1;
\* h.WriteFull(oid, payload); return nil; the deferred Unlock.
setAnnotationWrite(c) ==
    /\ mpc[c] = "sWrite"
    /\ LET a == marg[c]
       IN /\ mann' = [mann EXCEPT ![a.uuid] =
                        [present |-> TRUE, ver |-> nextAver(existingAver[c]), ann |-> a.ann]]
          /\ lastSet' = [lastSet EXCEPT ![a.uuid] =
                           [set |-> TRUE, aver |-> a.aver, ann |-> a.ann,
                            prev |-> mann[a.uuid].ver]]
          /\ annotationMu' = [annotationMu EXCEPT ![a.node] = 0]
    /\ mres' = [mres EXCEPT ![c] = Err("ok")]
    /\ mpc' = [mpc EXCEPT ![c] = "idle"]
    /\ UNCHANGED <<owner, mver, mstream, colmap, colindex, marg, existingAver, created,
                   nmeta, nstops>>
    /\ UNCHANGED NotMeta

\* GetStreamAnnotation: under the mutex, the object is read to its end; the
\* first 8 bytes are the version, the rest the annotation.  With no object
\* nothing is read and rvarr[:8] is out of range.
GetStreamAnnotation(c) ==
    /\ mpc[c] = "gAnn"
    /\ annotationMu[marg[c].node] = 0
    /\ LET u == marg[c].uuid
       IN IF mann[u].present
          THEN /\ mres' = [mres EXCEPT ![c] = [NoRes EXCEPT !.err = "ok",
                                                          !.ver = mann[u].ver,
                                                          !.ann = mann[u].ann]]
               /\ mpc' = [mpc EXCEPT ![c] = "idle"]
          ELSE /\ mres' = StoppedRes(marg[c].node, c)
               /\ mpc' = StoppedPc(marg[c].node)
    /\ UNCHANGED <<owner, metaStore, annotationMu, marg, existingAver, metaHist, nmeta, nstops>>
    /\ UNCHANGED NotMeta

\* The process of node n is stopped while a call is under way.
metaStop(n) ==
    /\ nstops < MaxStops
    /\ \E c \in MetaClients : marg[c].node = n /\ mpc[c] # "idle"
    /\ mpc' = StoppedPc(n)
    /\ mres' = [d \in MetaClients |->
                  IF marg[d].node = n /\ mpc[d] # "idle" THEN Err("stopped") ELSE mres[d]]
    /\ annotationMu' = [annotationMu EXCEPT ![n] = 0]
    /\ nstops' = nstops + 1
    /\ UNCHANGED <<owner, metaStore, marg, existingAver, metaHist, nmeta>>
    /\ UNCHANGED NotMeta

MetaNext ==
    \/ \E c \in MetaClients :
         \/ metaCall(c)
         \/ createEnter(c)
         \/ annotationLock(c)
         \/ createCheck(c)
         \/ createSetOmap(c)
         \/ createWriteAnn(c)
         \/ createSetIndex(c)
         \/ createSetStream(c)
         \/ createSetVersion(c)
         \/ GetStreamInfo(c)
         \/ setAnnotationRead(c)
         \/ setAnnotationWrite(c)
         \/ GetStreamAnnotation(c)
    \/ \E n \in MetaNodes : metaStop(n)


\* What ListStreams is called with: tag maps that pass the checks and one
\* that does not, a collection name that does not, and a partial listing.
ListInputs ==
    {[col |-> ColC, partial |-> FALSE, tags |-> t] : t \in TagMaps}
      \cup {[col |-> ColUpper, partial |-> FALSE, tags |-> <<>>],
            [col |-> ColC, partial |-> TRUE, tags |-> <<>>]}

\* A caller calls ListStreams on some node.
listCall(c) ==
    /\ mpc[c] = "idle"
    /\ nmeta < MaxMetaOps
    /\ \E n \in MetaNodes, i \in ListInputs :
         /\ marg' = [marg EXCEPT ![c] = [NoArg EXCEPT !.op = "ListStreams", !.node = n,
                                                     !.col = i.col, !.tags = i.tags,
                                                     !.partial = i.partial]]
         /\ mpc' = [mpc EXCEPT ![c] = "list"]
    /\ CallStarted(c)

\* A caller calls CreateStream.
createCall(c) ==
    /\ mpc[c] = "idle"
    /\ nmeta < MaxMetaOps
    /\ CreateStarts(c)
    /\ CallStarted(c)

\* A lookup that returns only the entry whose key is the tag string.
ListLookupExact(col, tlkey) == {e \in colmap : e.col = col /\ e.key = tlkey}

\* h.GetOmapValues("col."+collection, "", tlkey, 10): the entries of the
\* collection whose key starts with tlkey.
ListLookup(col, tlkey) == Hits(col, tlkey)

\* ListStreams, lines 985-995: the key of an entry split at '@', the last
\* (empty) piece dropped, the pieces taken in pairs; ok is FALSE where the
\* code indexes out of range or panics on an odd number of pieces.
ParseTagKey(k) ==
    LET all == Split(k, AtSign)
        tags == IF k = <<>> THEN <<>> ELSE SubSeq(all, 1, Len(all) - 1)
        keys == {tags[i] : i \in {j \in DOMAIN tags : j % 2 = 1}}
        last(x) == CHOOSE i \in DOMAIN tags :
                      /\ i % 2 = 1 /\ tags[i] = x
                      /\ \A j \in DOMAIN tags : (j % 2 = 1 /\ tags[j] = x) => j <= i
    IN IF Len(tags) % 2 = 1
       THEN [ok |-> FALSE, tags |-> <<>>]
       ELSE [ok |-> TRUE, tags |-> [x \in keys |-> tags[last(x) + 1]]]

\* &cephStream{uuid: val[:16], collection: collection, tags: tmap}
StreamOf(e) == [uuid |-> e.uuid, col |-> e.col, tags |-> ParseTagKey(e.key).tags]

\* The errors the loop over the tags may return: the map is walked in no
\* fixed order and the first tag that fails a check ends the call.
TagErrors(tags) ==
    {IF ~isValidTagKey(k) THEN "InvalidTagKey" ELSE "InvalidTagValue" :
       k \in {x \in DOMAIN tags : ~isValidTagKey(x) \/ ~isValidTagValue(tags[x])}}

\* What ListStreams may return, or "panic".
ListResults(col, partial, tags) ==
    LET rv == IF partial THEN {e \in colmap : e.col = col}
              ELSE ListLookup(col, TagKey(tags))
    IN IF ~isValidCollection(col) THEN {Err("InvalidCollection")}
       ELSE IF TagErrors(tags) # {} THEN {Err(e) : e \in TagErrors(tags)}
       ELSE IF rv = {} THEN {Err("NoSuchStream")}
       ELSE IF ~partial /\ Cardinality(rv) > 1 THEN {Err("AmbiguousTags")}
       ELSE IF \E e \in rv : ~ParseTagKey(e.key).ok THEN {Err("panic")}
       ELSE {[NoRes EXCEPT !.err = "ok", !.streams = {StreamOf(e) : e \in rv}]}

\* ListStreams, lines 927-1001: the checks of the arguments, then one read
\* of the collection's entries.
ListStreams(c) ==
    /\ mpc[c] = "list"
    /\ \E r \in ListResults(marg[c].col, marg[c].partial, marg[c].tags) :
         IF r.err = "panic"
         THEN /\ mres' = StoppedRes(marg[c].node, c)
              /\ mpc' = StoppedPc(marg[c].node)
         ELSE /\ mres' = [mres EXCEPT ![c] = r]
              /\ mpc' = [mpc EXCEPT ![c] = "idle"]
    /\ UNCHANGED <<owner, metaStore, annotationMu, marg, existingAver, metaHist, nmeta, nstops>>
    /\ UNCHANGED NotMeta

\* CreateStream and ListStreams calls on the nodes of the cluster.
ListNext ==
    \/ \E c \in MetaClients :
         \/ createCall(c)
         \/ createEnter(c)
         \/ annotationLock(c)
         \/ createCheck(c)
         \/ createSetOmap(c)
         \/ createWriteAnn(c)
         \/ createSetIndex(c)
         \/ createSetStream(c)
         \/ createSetVersion(c)
         \/ listCall(c)
         \/ ListStreams(c)
    \/ \E n \in MetaNodes : metaStop(n)

(***************************************************************************)
(* Superblocks.  An object is the sequence of its bytes; a write past the  *)
(* end of an object fills the gap with zero bytes, a read returns the      *)
(* bytes the object has in the range asked for.                            *)
(***************************************************************************)
\* WriteSuperBlock calls in one behaviour.
MaxSBWrites == 3

SBLOCK_CHUNK_SHIFT == 20
SBLOCK_CHUNK_MASK == 1048575
SBLOCKS_PER_CHUNK == 2 ^ SBLOCK_CHUNK_SHIFT
SBLOCK_SIZE == 16

\* Versions: two next to each other in the first chunk, and one with the
\* offset of the first in the second chunk.
SBVersions == {2, 3, SBLOCKS_PER_CHUNK + 2}

\* Superblock buffers of SBLOCK_SIZE bytes, all bytes of one differing from
\* all bytes of the other and from 0.
SBuffers == {[i \in 1..SBLOCK_SIZE |-> t * SBLOCK_SIZE + i] : t \in 1..2}

\* chunk := version >> SBLOCK_CHUNK_SHIFT
SBChunk(version) == version \div SBLOCKS_PER_CHUNK

\* An offset that leaves out the size of a superblock.
SBOffsetUnscaled(version) == version % (SBLOCK_CHUNK_MASK + 1)

\* offset := (version & SBLOCK_CHUNK_MASK) * SBLOCK_SIZE
SBOffset(version) == (version % (SBLOCK_CHUNK_MASK + 1)) * SBLOCK_SIZE

\* oid := fmt.Sprintf("sb%032x%011x", uuid, chunk)
SBOid(uuid, version) == <<uuid, SBChunk(version)>>
SBOids == {SBOid(u, v) : u \in UUIDs, v \in SBVersions}

\* h.Write(oid, buffer, offset) on the bytes obj of the object
SBObjectWrite(obj, buffer, offset) ==
    LET end == offset + Len(buffer)
        n == IF Len(obj) > end THEN Len(obj) ELSE end
    IN [i \in 1..n |-> IF i > offset /\ i <= end THEN buffer[i - offset]
                       ELSE IF i <= Len(obj) THEN obj[i]
                       ELSE 0]

\* h.Read(oid, buffer, offset), the buffer SBLOCK_SIZE long, and the test
\* br != SBLOCK_SIZE || err != nil
SBObjectRead(obj, offset) ==
    IF Len(obj) < offset + SBLOCK_SIZE
    THEN [ok |-> FALSE, data |-> <<>>]
    ELSE [ok |-> TRUE, data |-> [i \in 1..SBLOCK_SIZE |-> obj[offset + i]]]

NoSBRead == [uuid |-> 0, version |-> 0, ok |-> FALSE, data |-> <<>>]

SBInit ==
    /\ sbobj = [o \in SBOids |-> <<>>]
    /\ sblast = [k \in UUIDs \X SBVersions |-> <<>>]
    /\ sbres = NoSBRead
    /\ nsbw = 0

WriteSuperBlock(uuid, version, buffer) ==
    /\ nsbw < MaxSBWrites
    /\ sbobj' = [sbobj EXCEPT ![SBOid(uuid, version)] =
                    SBObjectWrite(@, buffer, SBOffset(version))]
    /\ sblast' = [sblast EXCEPT ![<<uuid, version>>] = buffer]
    /\ sbres' = NoSBRead
    /\ nsbw' = nsbw + 1
    /\ UNCHANGED NotSB

\* ReadSuperBlock returns the buffer, or ends the process when fewer than
\* SBLOCK_SIZE bytes were read.
ReadSuperBlock(uuid, version) ==
    /\ LET r == SBObjectRead(sbobj[SBOid(uuid, version)], SBOffset(version))
       IN sbres' = [uuid |-> uuid, version |-> version, ok |-> r.ok, data |-> r.data]
    /\ UNCHANGED <<sbobj, sblast, nsbw>>
    /\ UNCHANGED NotSB

SBNext ==
    \E u \in UUIDs, v \in SBVersions :
        \/ \E b \in SBuffers : WriteSuperBlock(u, v, b)
        \/ ReadSuperBlock(u, v)

(***************************************************************************)
(* The segment-address cache of one node, with several streams.  The       *)
(* streams that lock and unlock segments here have their entries in        *)
(* addrcache; the entries of all other streams of the node are counted in  *)
(* othercached.  Write is followed only as far as seg.naddr goes.          *)
(***************************************************************************)
\* Streams that lock segments, and calls started in one behaviour.
NumStreams == 2
MaxCacheOps == 4

SEGCACHE_SIZE == 1024

Streams == 1..NumStreams

\* No segment of the stream is locked.
NoSegment == [locked |-> FALSE, ptr |-> 0, base |-> 0, naddr |-> 0]

\* len(sp.segaddrcache)
CacheLen ==
    othercached + Cardinality({u \in Streams : addrcache[u] # Absent})

\* The test of Unlock that lets no address through.
CacheableNever(naddr) == FALSE

\* (seg.naddr & OFFSET_MASK) < WORTH_CACHING
Cacheable(naddr) == naddr % ADDR_OBJ_SIZE < WORTH_CACHING

\* pruneSegCache that lets the cache grow to one entry more.
pruneSegCacheLate(n) == n > SEGCACHE_SIZE

\* pruneSegCache, with n = len(sp.segaddrcache): whether the map is replaced
\* by an empty one.
pruneSegCache(n) == n >= SEGCACHE_SIZE

\* LockSegment with the line "ok = false" put back.
StartAddressFresh(cached, p) == p

\* LockSegment, lines 449-455: rv.base, from the cached address or the
\* allocation pulled.
StartAddress(cached, p) == IF cached # Absent THEN cached ELSE p

\* The node has started, or an earlier segment of stream 1 took the node's
\* first allocation, wrote one blob, or as many as the object has room
\* for, and was unlocked; many other streams may have entries.  After the
\* one blob the node may have gone on to the end of its range (segments of
\* other streams took the allocations) and through a failed reservation.
CacheInit ==
    /\ cseg = [u \in Streams |-> NoSegment]
    /\ segstep = [u \in Streams |-> "unlocked"]
    /\ segcachelock = 0
    /\ \E e \in {Absent, CreateDatabaseAddr + SmallLen + 2,
                   CreateDatabaseAddr + LastNaddrOffset} :
         /\ addrcache = [u \in Streams |-> IF u = 1 THEN e ELSE Absent]
         /\ lastnaddr = [u \in Streams |-> IF u = 1 THEN e ELSE Absent]
         /\ IF e = Absent THEN AllocInitFor({Writer})
            ELSE \/ AllocAfterFirst
                 \/ e = CreateDatabaseAddr + SmallLen + 2 /\ AllocAfterFailedReservation
         /\ wrote = IF e = Absent THEN {}
                    ELSE {[call |-> 0, stream |-> 1, lo |-> CreateDatabaseAddr, hi |-> e]}
    /\ othercached \in {0, SEGCACHE_SIZE - 2, SEGCACHE_SIZE - 1}
    /\ pruned = [u \in Streams |-> FALSE]
    /\ prunedAt = Absent
    /\ ncacheops = 0

CacheIdle ==
    /\ cseg = [u \in Streams |-> NoSegment]
    /\ segstep = [u \in Streams |-> "unlocked"]
    /\ segcachelock = 0
    /\ addrcache = [u \in Streams |-> Absent]
    /\ lastnaddr = [u \in Streams |-> Absent]
    /\ othercached = 0
    /\ pruned = [u \in Streams |-> FALSE]
    /\ prunedAt = Absent
    /\ ncacheops = 0
    /\ wrote = {}

UnchangedAlloc == UNCHANGED <<allocator, alloc_lock, apc, le, arv, acaller, ptr, abase, given>>

\* LockSegment(uuid) for stream u: an allocation is pulled, the entry of
\* the stream is looked up and deleted under segcachelock.
LockSegmentOf(u) ==
    /\ segstep[u] = "unlocked"
    /\ ncacheops < MaxCacheOps
    /\ alloc[Writer] # <<>>
    /\ segcachelock = 0
    /\ alloc' = [alloc EXCEPT ![Writer] = Tail(@)]
    /\ LET p == Head(alloc[Writer])
           b == StartAddress(addrcache[u], p)
       IN cseg' = [cseg EXCEPT ![u] = [locked |-> TRUE, ptr |-> p, base |-> b, naddr |-> b]]
    /\ addrcache' = [addrcache EXCEPT ![u] = Absent]
    /\ segstep' = [segstep EXCEPT ![u] = "locked"]
    /\ ncacheops' = ncacheops + 1
    /\ prunedAt' = Absent
    /\ UNCHANGED <<segcachelock, othercached, lastnaddr, pruned, wrote>>
    /\ UnchangedAlloc
    /\ UNCHANGED NotCacheAlloc

\* Write(uuid, seg.naddr, data) with len(data) = n, as far as seg.naddr goes:
\* the blob takes the bytes [seg.naddr, seg.naddr + n + 2).
WriteOf(u, n) ==
    /\ segstep[u] = "locked"
    /\ ncacheops < MaxCacheOps
    /\ LET address == cseg[u].naddr
           naddr == address + n + 2
       IN IF NeedsNewObject(naddr, address)
          THEN /\ alloc[Writer] # <<>>
               /\ alloc' = [alloc EXCEPT ![Writer] = Tail(@)]
               /\ cseg' = [cseg EXCEPT ![u].naddr = Head(alloc[Writer])]
          ELSE /\ cseg' = [cseg EXCEPT ![u].naddr = naddr]
               /\ UNCHANGED alloc
    /\ ncacheops' = ncacheops + 1
    /\ prunedAt' = Absent
    /\ wrote' = wrote \cup {[call |-> ncacheops + 1, stream |-> u,
                               lo |-> cseg[u].naddr, hi |-> cseg[u].naddr + n + 2]}
    /\ UNCHANGED <<segstep, segcachelock, addrcache, othercached, lastnaddr, pruned>>
    /\ UnchangedAlloc
    /\ UNCHANGED NotCacheAlloc

\* Unlock, lines 123-126: flush, return of the handle, and the test of
\* seg.naddr.
UnlockOf(u) ==
    /\ segstep[u] = "locked"
    /\ cseg' = [cseg EXCEPT ![u].locked = FALSE]
    /\ lastnaddr' = [lastnaddr EXCEPT ![u] = cseg[u].naddr]
    /\ pruned' = [pruned EXCEPT ![u] = FALSE]
    /\ segstep' = [segstep EXCEPT ![u] = IF Cacheable(cseg[u].naddr) THEN "prune" ELSE "unlocked"]
    /\ prunedAt' = Absent
    /\ UNCHANGED <<segcachelock, addrcache, othercached, ncacheops, wrote>>
    /\ UNCHANGED allocVars
    /\ UNCHANGED NotCacheAlloc

\* Unlock, lines 127-128: segcachelock.Lock(); pruneSegCache().
unlockPrune(u) ==
    /\ segstep[u] = "prune"
    /\ segcachelock = 0
    /\ segcachelock' = u
    /\ IF pruneSegCache(CacheLen)
       THEN /\ addrcache' = [v \in Streams |-> Absent]
            /\ othercached' = 0
            /\ pruned' = [v \in Streams |-> TRUE]
            /\ prunedAt' = CacheLen
       ELSE /\ UNCHANGED <<addrcache, othercached, pruned>>
            /\ prunedAt' = Absent
    /\ segstep' = [segstep EXCEPT ![u] = "insert"]
    /\ UNCHANGED <<cseg, lastnaddr, ncacheops, wrote>>
    /\ UNCHANGED allocVars
    /\ UNCHANGED NotCacheAlloc

\* Unlock, lines 129-130: segaddrcache[seg.uid] = seg.naddr; Unlock().
unlockInsert(u) ==
    /\ segstep[u] = "insert"
    /\ addrcache' = [addrcache EXCEPT ![u] = cseg[u].naddr]
    /\ pruned' = [pruned EXCEPT ![u] = FALSE]
    /\ segcachelock' = 0
    /\ segstep' = [segstep EXCEPT ![u] = "unlocked"]
    /\ prunedAt' = Absent
    /\ UNCHANGED <<cseg, othercached, lastnaddr, ncacheops, wrote>>
    /\ UNCHANGED allocVars
    /\ UNCHANGED NotCacheAlloc

\* A segment of another stream of the node is unlocked: prune and insert
\* under segcachelock.
OtherUnlock ==
    /\ ncacheops < MaxCacheOps
    /\ segcachelock = 0
    /\ IF pruneSegCache(CacheLen)
       THEN /\ addrcache' = [v \in Streams |-> Absent]
            /\ othercached' = 1
            /\ pruned' = [v \in Streams |-> TRUE]
       ELSE /\ othercached' = othercached + 1
            /\ UNCHANGED <<addrcache, pruned>>
    /\ ncacheops' = ncacheops + 1
    /\ prunedAt' = Absent
    /\ UNCHANGED <<cseg, segstep, segcachelock, lastnaddr, wrote>>
    /\ UNCHANGED allocVars
    /\ UNCHANGED NotCacheAlloc

\* A segment of another stream that has an entry is locked: the entry is
\* deleted.
OtherLock ==
    /\ ncacheops < MaxCacheOps
    /\ segcachelock = 0
    /\ othercached > 0
    /\ othercached' = othercached - 1
    /\ ncacheops' = ncacheops + 1
    /\ prunedAt' = Absent
    /\ UNCHANGED <<cseg, segstep, segcachelock, addrcache, lastnaddr, pruned, wrote>>
    /\ UNCHANGED allocVars
    /\ UNCHANGED NotCacheAlloc

CacheNext ==
    \/ \E u \in Streams :
         \/ LockSegmentOf(u)
         \/ \E n \in {SmallLen, MAX_EXPECTED_OBJECT_SIZE} : WriteOf(u, n)
         \/ UnlockOf(u)
         \/ unlockPrune(u)
         \/ unlockInsert(u)
    \/ OtherUnlock
    \/ OtherLock
    \/ AllocStep(Writer)

(***************************************************************************)
(* The handle pools.  Both pools run the same vendor loop; p is "read"     *)
(* (rh_avail, rhidx, rhidx_ret) or "write" (wh_avail, whidx, whidx_ret).   *)
(* The availability marks are touched by the vendor alone, so a mark is    *)
(* set or cleared in the step of the receive or send it belongs to.        *)
(***************************************************************************)
\* Callers of the pools, acquisitions started in one behaviour, and the
\* handles of a pool that are not out when the behaviour begins on a node
\* that is already at work.
NumCallers == 2
MaxAcquires == 3
NumFree == 1

NUM_RHANDLES == 16
NUM_WHANDLES == 16

Pools == {"read", "write"}
Callers == 1..NumCallers

\* NUM_RHANDLES or NUM_WHANDLES
NumHandles(p) == IF p = "read" THEN NUM_RHANDLES ELSE NUM_WHANDLES
Handles(p) == 0..(NumHandles(p) - 1)

\* A return channel with room for one handle.
ChanCapOne(p) == 1

\* make(chan int, NUM_RHANDLES+1)
ChanCap(p) == NumHandles(p) + 1

\* Ways to acquire: GetRH (read handles only) or a plain receive.
Acquisitions == {[pool |-> "read", by |-> "GetRH"],
                 [pool |-> "read", by |-> "recv"],
                 [pool |-> "write", by |-> "recv"]}
NoAcquisition == [pool |-> "none", by |-> "none"]

\* Initialize, lines 349-381: every handle marked available, the channels
\* empty, the vendors started.
PoolFresh ==
    /\ h_avail = [p \in Pools |-> [i \in Handles(p) |-> TRUE]]
    /\ otherheld = [p \in Pools |-> {}]

\* A node at work: all handles but NumFree of each pool are held by callers
\* that keep them for as long as the behaviour lasts.
PoolBusy ==
    /\ h_avail = [p \in Pools |-> [i \in Handles(p) |-> i < NumFree]]
    /\ otherheld = [p \in Pools |-> {i \in Handles(p) : i >= NumFree}]

PoolRest ==
    /\ hidx = [p \in Pools |-> <<>>]
    /\ hidx_ret = [p \in Pools |-> <<>>]
    /\ vpc = [p \in Pools |-> "drain"]
    /\ vi = [p \in Pools |-> 0]
    /\ vfound = [p \in Pools |-> FALSE]
    /\ hstep = [c \in Callers |-> "idle"]
    /\ hwant = [c \in Callers |-> NoAcquisition]
    /\ hheld = [c \in Callers |-> Absent]
    /\ hpanic = FALSE
    /\ nacq = 0

PoolIdle == PoolFresh /\ PoolRest

\* The vendors have been through their loops once after Initialize: every
\* handle is queued for acquisition.
PoolStarted ==
    /\ h_avail = [p \in Pools |-> [i \in Handles(p) |-> FALSE]]
    /\ otherheld = [p \in Pools |-> {}]
    /\ hidx = [p \in Pools |-> [i \in 1..NumHandles(p) |-> i - 1]]
    /\ hidx_ret = [p \in Pools |-> <<>>]
    /\ vpc = [p \in Pools |-> "drain"]
    /\ vi = [p \in Pools |-> NumHandles(p)]
    /\ vfound = [p \in Pools |-> TRUE]
    /\ hstep = [c \in Callers |-> "idle"]
    /\ hwant = [c \in Callers |-> NoAcquisition]
    /\ hheld = [c \in Callers |-> Absent]
    /\ hpanic = FALSE
    /\ nacq = 0

PoolInit == PoolStarted \/ (PoolBusy /\ PoolRest)

\* provideReadHandles, lines 219-223: case fi := <-sp.rhidx_ret
vendorRecv(p) ==
    /\ ~hpanic
    /\ vpc[p] = "drain"
    /\ hidx_ret[p] # <<>>
    /\ h_avail' = [h_avail EXCEPT ![p][Head(hidx_ret[p])] = TRUE]
    /\ hidx_ret' = [hidx_ret EXCEPT ![p] = Tail(@)]
    /\ UNCHANGED <<hidx, vpc, vi, vfound, hstep, hwant, hheld, otherheld, hpanic, nacq>>
    /\ UNCHANGED NotPool

\* lines 224-228: default: break; found := false
vendorDrained(p) ==
    /\ ~hpanic
    /\ vpc[p] = "drain"
    /\ hidx_ret[p] = <<>>
    /\ vpc' = [vpc EXCEPT ![p] = "offer"]
    /\ vi' = [vi EXCEPT ![p] = 0]
    /\ vfound' = [vfound EXCEPT ![p] = FALSE]
    /\ UNCHANGED <<h_avail, hidx, hidx_ret, hstep, hwant, hheld, otherheld, hpanic, nacq>>
    /\ UNCHANGED NotPool

\* The handles the for loop has still to look at that are marked available.
ToOffer(p) == {i \in Handles(p) : i >= vi[p] /\ h_avail[p][i]}

\* vendorOffer that leaves the handle marked available.
vendorOfferKeepMark(p) ==
    /\ ~hpanic
    /\ vpc[p] = "offer"
    /\ ToOffer(p) # {}
    /\ Len(hidx[p]) < ChanCap(p)
    /\ LET i == CHOOSE j \in ToOffer(p) : \A k \in ToOffer(p) : j <= k
       IN /\ hidx' = [hidx EXCEPT ![p] = Append(@, i)]
          /\ UNCHANGED h_avail
          /\ vi' = [vi EXCEPT ![p] = i + 1]
    /\ vfound' = [vfound EXCEPT ![p] = TRUE]
    /\ UNCHANGED <<hidx_ret, vpc, hstep, hwant, hheld, otherheld, hpanic, nacq>>
    /\ UNCHANGED NotPool

\* lines 229-236: the next handle that is marked available is sent on
\* sp.rhidx and its mark cleared.
vendorOffer(p) ==
    /\ ~hpanic
    /\ vpc[p] = "offer"
    /\ ToOffer(p) # {}
    /\ Len(hidx[p]) < ChanCap(p)
    /\ LET i == CHOOSE j \in ToOffer(p) : \A k \in ToOffer(p) : j <= k
       IN /\ hidx' = [hidx EXCEPT ![p] = Append(@, i)]
          /\ h_avail' = [h_avail EXCEPT ![p][i] = FALSE]
          /\ vi' = [vi EXCEPT ![p] = i + 1]
    /\ vfound' = [vfound EXCEPT ![p] = TRUE]
    /\ UNCHANGED <<hidx_ret, vpc, hstep, hwant, hheld, otherheld, hpanic, nacq>>
    /\ UNCHANGED NotPool

\* lines 237-238: the for loop is over
vendorOffered(p) ==
    /\ ~hpanic
    /\ vpc[p] = "offer"
    /\ ToOffer(p) = {}
    /\ vpc' = [vpc EXCEPT ![p] = IF vfound[p] THEN "drain" ELSE "wait"]
    /\ UNCHANGED <<h_avail, hidx, hidx_ret, vi, vfound, hstep, hwant, hheld, otherheld,
                   hpanic, nacq>>
    /\ UNCHANGED NotPool

\* lines 239-240: idx := <-sp.rhidx_ret, blocking
vendorWait(p) ==
    /\ ~hpanic
    /\ vpc[p] = "wait"
    /\ hidx_ret[p] # <<>>
    /\ h_avail' = [h_avail EXCEPT ![p][Head(hidx_ret[p])] = TRUE]
    /\ hidx_ret' = [hidx_ret EXCEPT ![p] = Tail(@)]
    /\ vpc' = [vpc EXCEPT ![p] = "drain"]
    /\ UNCHANGED <<hidx, vi, vfound, hstep, hwant, hheld, otherheld, hpanic, nacq>>
    /\ UNCHANGED NotPool

\* A caller comes to GetRH, or to a receive from sp.rhidx or sp.whidx.
handleWant(c) ==
    /\ ~hpanic
    /\ hstep[c] = "idle"
    /\ nacq < MaxAcquires
    /\ \E a \in Acquisitions : hwant' = [hwant EXCEPT ![c] = a]
    /\ hstep' = [hstep EXCEPT ![c] = "wait"]
    /\ nacq' = nacq + 1
    /\ UNCHANGED <<h_avail, hidx, hidx_ret, vpc, vi, vfound, hheld, otherheld, hpanic>>
    /\ UNCHANGED NotPool

\* case h := <-sp.rhidx (GetRH), hi := <-sp.rhidx, hi := <-sp.whidx
handleAcquire(c) ==
    /\ ~hpanic
    /\ hstep[c] = "wait"
    /\ hidx[hwant[c].pool] # <<>>
    /\ hheld' = [hheld EXCEPT ![c] = Head(hidx[hwant[c].pool])]
    /\ hidx' = [hidx EXCEPT ![hwant[c].pool] = Tail(@)]
    /\ hstep' = [hstep EXCEPT ![c] = "held"]
    /\ UNCHANGED <<h_avail, hidx_ret, vpc, vi, vfound, hwant, otherheld, hpanic, nacq>>
    /\ UNCHANGED NotPool

\* GetRH, lines 290-291: case <-time.After(10 * time.Second): panic.  The
\* ten seconds can only run out while nothing is there to be received.
GetRHTimeout(c) ==
    /\ ~hpanic
    /\ hstep[c] = "wait"
    /\ hwant[c].by = "GetRH"
    /\ hidx[hwant[c].pool] = <<>>
    /\ hpanic' = TRUE
    /\ UNCHANGED <<h_avail, hidx, hidx_ret, vpc, vi, vfound, hstep, hwant, hheld, otherheld,
                   nacq>>
    /\ UNCHANGED NotPool

\* sp.rhidx_ret <- hi, sp.whidx_ret <- hi: the holder gives its handle
\* back, once.
handleRelease(c) ==
    /\ ~hpanic
    /\ hstep[c] = "held"
    /\ Len(hidx_ret[hwant[c].pool]) < ChanCap(hwant[c].pool)
    /\ hidx_ret' = [hidx_ret EXCEPT ![hwant[c].pool] = Append(@, hheld[c])]
    /\ hheld' = [hheld EXCEPT ![c] = Absent]
    /\ hstep' = [hstep EXCEPT ![c] = "idle"]
    /\ UNCHANGED <<h_avail, hidx, vpc, vi, vfound, hwant, otherheld, hpanic, nacq>>
    /\ UNCHANGED NotPool

Vendor(p) ==
    vendorRecv(p) \/ vendorDrained(p) \/ vendorOffer(p) \/ vendorOffered(p) \/ vendorWait(p)

PoolNext ==
    \/ \E p \in Pools : Vendor(p)
    \/ \E c \in Callers :
         handleWant(c) \/ handleAcquire(c) \/ GetRHTimeout(c) \/ handleRelease(c)

(***************************************************************************)
(* Specifications.                                                         *)
(***************************************************************************)
AllocInit == AllocInitFor(Nodes)

AllocNext ==
    \E n \in Nodes : AllocStep(n) \/ takeAlloc(n)

\* Parts left idle by a specification.
AllocIdle == AllocInitFor({})

CoalIdle == CoalInit /\ exists

InitAlloc == AllocInit /\ CoalIdle /\ ChunkInit /\ SegIdle /\ CallInit /\ MetaIdle /\ SBInit /\ CacheIdle /\ PoolIdle
SpecAlloc == InitAlloc /\ [][AllocNext]_vars

InitCoal == AllocIdle /\ CoalInit /\ ChunkInit /\ SegIdle /\ CallInit /\ MetaIdle /\ SBInit /\ CacheIdle /\ PoolIdle
SpecCoal == InitCoal /\ [][CoalNext]_vars

\* The steps of one goroutine that has been started: a caller inside its
\* call, a coalesce timer, the shutdown goroutine.  The Go scheduler runs
\* every goroutine that can take a step; calls are started (startCall,
\* InitiateShutdown) when the application wants.
CallerStep(c) ==
    \/ getTreeLock(c) \/ getTree(c) \/ mtxLock(c) \/ insertAppend(c) \/ deleteRange(c)
CommitStep(g) ==
    \/ checkStore(g) \/ signal(g) \/ commitEnter(g) \/ commitHand(g)
    \/ commitClear(g) \/ mtxUnlock(g)
TimerStep(k) == timerExpire(k) \/ timerAbort(k) \/ timerLock(k)
CoalFairness ==
    /\ \A c \in Clients : WF_vars(CallerStep(c))
    /\ \A g \in Goroutines : WF_vars(CommitStep(g))
    /\ \A k \in 1..MaxBatches : WF_vars(TimerStep(k))
    /\ WF_vars(shutdownLock \/ shutdownClose)
SpecCoalFair == SpecCoal /\ CoalFairness

InitChunk == AllocIdle /\ CoalIdle /\ ChunkInit /\ SegIdle /\ CallInit /\ MetaIdle /\ SBInit /\ CacheIdle /\ PoolIdle
SpecChunk == InitChunk /\ [][ChunkNext]_vars

\* A caller inside obtainChunk and a fetching goroutine that has been
\* started are goroutines the Go scheduler keeps running; when a caller
\* enters, a segment is flushed or the cache evicts is not up to it.
ReaderStep(r) ==
    obtainChunkGet(r) \/ obtainChunkLock(r) \/ obtainChunkRegister(r) \/ obtainChunkRecv(r)
FetchStep(r) ==
    fetchGet(r) \/ fetchRead(r) \/ fetchPut(r) \/ fetchLock(r) \/ fetchFanout(r)
ChunkFairness ==
    \A r \in Readers : WF_vars(ReaderStep(r)) /\ WF_vars(FetchStep(r))
SpecChunkFair == SpecChunk /\ ChunkFairness

InitSeg ==
    /\ SegInit
    /\ \/ SegFresh
       \/ \E o \in CachedOffsets : SegResumed(o)
       \/ SegResumedAtZero(LastNaddrOffset)
    /\ CoalIdle
    /\ ChunkInit
    /\ CallInit
    /\ MetaIdle
    /\ SBInit /\ CacheIdle /\ PoolIdle
SpecSeg == InitSeg /\ [][SegNext]_vars

InitMeta == AllocIdle /\ CoalIdle /\ ChunkInit /\ SegIdle /\ CallInit /\ MetaInit /\ SBInit /\ CacheIdle /\ PoolIdle
SpecMeta == InitMeta /\ [][MetaNext]_vars

InitCache == CacheInit /\ CoalIdle /\ ChunkInit /\ SegIdle /\ CallInit /\ MetaIdle /\ SBInit /\ PoolIdle
SpecCache == InitCache /\ [][CacheNext]_vars

InitPool ==
    AllocIdle /\ CoalIdle /\ ChunkInit /\ SegIdle /\ CallInit /\ MetaIdle /\ SBInit /\ CacheIdle
      /\ PoolInit
SpecPool == InitPool /\ [][PoolNext]_vars

\* The vendors run, a caller that can receive a handle does, and a holder
\* gives its handle back.
PoolFairness ==
    /\ \A p \in Pools : WF_vars(Vendor(p))
    /\ \A c \in Callers : WF_vars(handleAcquire(c)) /\ WF_vars(handleRelease(c))
SpecPoolFair == SpecPool /\ PoolFairness

InitList == AllocIdle /\ CoalIdle /\ ChunkInit /\ SegIdle /\ CallInit /\ MetaInit /\ SBInit /\ CacheIdle /\ PoolIdle
SpecList == InitList /\ [][ListNext]_vars

InitSB == AllocIdle /\ CoalIdle /\ ChunkInit /\ SegIdle /\ CallInit /\ MetaIdle /\ SBInit /\ CacheIdle /\ PoolIdle
SpecSB == InitSB /\ [][SBNext]_vars

\* C1: no allocated address is ever handed out twice, to the same node or
\* to two different nodes, in any interleaving of the nodes' lock, read,
\* write and unlock steps.
C1_NoAddressTwice ==
    \A n1, n2 \in Nodes :
      \A i \in DOMAIN given[n1], j \in DOMAIN given[n2] :
        (n1 # n2 \/ i # j) => given[n1][i] # given[n2][j]

(***************************************************************************)
(* Claims about the ingest coalescer.                                      *)
(***************************************************************************)
InCommit(g) == cpc[g] \in {"hand", "clear"}

\* C5: at most one commit of the stream is in progress at any instant, in
\* every interleaving of InsertValues, Flush, DeleteRange, the coalesce
\* timer and InitiateShutdown.
C5_OneCommitAtATime ==
    Cardinality({g \in Goroutines : InCommit(g)}) <= 1

\* C6: every record accepted by InsertValues is handed to the tree engine
\* by exactly one commit: never by two, and never dropped from the pending
\* batch without having been handed over.
C6_HandedExactlyOnce ==
    \A r \in 1..nrec :
      /\ Len(handedBy[r]) <= 1
      /\ r \notin Range(store) => Len(handedBy[r]) >= 1

\* C7: once a batch has been committed synchronously (by a threshold
\* commit, Flush, DeleteRange or shutdown), the commit of that batch's
\* timer is a no-op: the timer never gets past commit's test for an empty
\* store.
C7_TimerCommitIsNoOp ==
    \A k \in 1..MaxBatches : InCommit(TimerOf(k)) => k \notin syncDone

\* C8: when records are pending below CoalesceMaxPoints and no call is
\* running or will be issued, a coalesce timer is armed that will commit
\* them (stated on the state, so that a finite run decides it: with no
\* timer armed, nothing ever commits the pending records).
C8_PendingHasTimer ==
    ( /\ Len(store) > 0
      /\ Len(store) < CoalesceMaxPoints
      /\ \A c \in Clients : cpc[c] = "idle"
      /\ cpc[Shut] = "off"
      /\ treelock = NoOne )
    => \E k \in 1..MaxBatches : cpc[TimerOf(k)] \in {"sleep", "wantlock"}

\* C9: an InsertValues call whose append reaches CoalesceMaxPoints has, when
\* it returns, handed its records to the tree engine in one commit, and the
\* pending batch is empty.
C9_ThresholdCommitsAll ==
    \A c \in Clients :
      (cop[c] = "InsertValues" /\ creached[c] /\ cpc[c] = "unlock") =>
        /\ store = <<>>
        /\ \E n \in 1..ncommit : \A r \in Range(crecs[c]) : handedBy[r] = <<n>>

(***************************************************************************)
(* Claims about the read path.                                             *)
(***************************************************************************)
Fetching(r) == fpc[r] \in {"get", "read", "put", "lock", "fanout"}

\* C10 as stated: two concurrent calls for the same chunk trigger at most
\* one object-store read of it, in every interleaving.
C10_OneStoreRead ==
    conc => storeReads <= 1

\* C10 as amended: calls for the same chunk trigger at most one object-store
\* read of it more than the number of times the chunk has been removed from
\* the read cache (invalidated by a flush, or evicted), and at most one
\* fetch of the chunk is in flight at a time.
C10_OneStoreReadPerDrop ==
    /\ storeReads <= 1 + drops
    /\ Cardinality({r \in Readers : Fetching(r)}) <= 1

\* Two calls ran at once, both missed the cache, and both have the chunk,
\* after a single read of the object store.
C10_Witness ==
    /\ conc
    /\ \A r \in Readers : rpc[r] = "done" /\ rgot[r] # Absent
    /\ Cardinality({r \in Readers : fpc[r] = "done"}) >= 2
    /\ storeReads = 1

(***************************************************************************)
(* Claims about the segment writer and the blob reader.                    *)
(***************************************************************************)
\* C2: of two consecutive Write calls on the same segment, the second
\* returns a greater address than the first.
C2_WriteReturnsIncrease ==
    \A i \in DOMAIN written :
        (i > 1 /\ written[i].seg = written[i - 1].seg) => written[i].ret > written[i - 1].ret

\* C3: when every payload written is at most MAX_EXPECTED_OBJECT_SIZE bytes
\* long, every blob lies within one 16 MiB object: its first byte and its
\* last byte are in the same object.
C3_BlobInOneObject ==
    (\A i \in DOMAIN written : written[i].len <= MAX_EXPECTED_OBJECT_SIZE)
        => \A i \in DOMAIN written :
              ObjectOf(written[i].addr) = ObjectOf(written[i].addr + written[i].len + 1)

\* The first blob of a segment that resumed at a cached address has the
\* largest payload and starts at the last offset the boundary test lets a
\* blob start at, and its Write has pulled a fresh allocation.
C3_Witness ==
    /\ \A i \in DOMAIN written : written[i].len <= MAX_EXPECTED_OBJECT_SIZE
    /\ \E i \in DOMAIN written :
          /\ written[i].cached
          /\ written[i].len = MAX_EXPECTED_OBJECT_SIZE
          /\ written[i].addr % ADDR_OBJ_SIZE = LastNaddrOffset
          /\ written[i].ret % ADDR_OBJ_SIZE = 0

\* C4: a Read of a blob's address, after the Write of the blob and a Flush
\* or an Unlock of its segment, returns the payload: same length, same bytes.
C4_ReadAfterWrite ==
    (rd.idx # 0 /\ written[rd.idx].synced)
        => /\ rd.ok
           /\ rd.len = written[rd.idx].len
           /\ rd.tag = rd.idx

(***************************************************************************)
(* Further claims about the allocator.                                     *)
(***************************************************************************)
\* C11: the persisted allocator counter never decreases: no step stores a
\* value smaller than the one it replaces.
C11_CounterNonDecreasing ==
    [][allocator' >= allocator]_vars

(***************************************************************************)
(* Further claims about the segment writer.                                *)
(***************************************************************************)
\* C12: a Write whose address differs from the segment's naddr fails with
\* InvalidArgument and leaves naddr, the write buffer, the buffer base and
\* the object store as they were.
C12_NonSequentialRefused ==
    [][\A d \in {1, SmallLen} :
          WriteNonSequential(seg_naddr + d)
              => /\ wres' = "InvalidArgument"
                 /\ UNCHANGED <<seg_naddr, wcache, wcache_base, objstore>>]_vars

\* C13: a Write at address a with a payload of n bytes pulls a fresh
\* allocation when a + n + 2 + MAX_EXPECTED_OBJECT_SIZE + 2 is in another
\* object than a: it returns the allocation, which is at offset 0 of a new
\* object and becomes naddr, and the buffer is flushed.  Otherwise it
\* returns a + n + 2 and sets naddr to it.
C13_WriteBranches ==
    [][\A n \in PayloadLens :
          Write(n) =>
              LET a == seg_naddr
                  ret == written'[Len(written')].ret
              IN IF ObjectOf(a + n + 2 + MAX_EXPECTED_OBJECT_SIZE + 2) # ObjectOf(a)
                 THEN /\ ret = Head(alloc[Writer])
                      /\ seg_naddr' = ret
                      /\ ret % ADDR_OBJ_SIZE = 0
                      /\ ObjectOf(ret) # ObjectOf(a)
                      /\ wcache' = <<>>
                      /\ \E b \in objstore' : b.addr = a /\ b.len = n
                 ELSE /\ ret = a + n + 2
                      /\ seg_naddr' = ret]_vars

(***************************************************************************)
(* Further claims about the ingest coalescer.                              *)
(***************************************************************************)
\* The step in which a call of InsertValues by c is refused.
Refused(c) ==
    /\ cop'[c] = "InsertValues"
    /\ cpc'[c] = "idle"
    /\ \/ cpc[c] = "idle" /\ nops' # nops /\ cres'[c] = "WrongEndpoint"
       \/ cpc[c] = "lookup" /\ cres'[c] = "NoSuchStream"

Timers == [k \in 1..MaxBatches |-> cpc[TimerOf(k)]]

\* C14: InsertValues returns WrongEndpoint when the node does not own the
\* stream and NoSuchStream when the stream was never created; the refused
\* call adds no record to the pending batch, starts no timer and registers
\* no open tree or tree mutex; a stream that does not exist never has a
\* tree, a batch or a timer.
C14_RefusedInsertChangesNothing ==
    /\ [](~exists => ~opened /\ store = <<>> /\ ~storeNonNil /\ nch = 0)
    /\ [][\A c \in Clients :
            Refused(c) =>
                /\ UNCHANGED <<store, storeNonNil, nch, sigEC, chanbuf, opened, treelock, nrec>>
                /\ Timers' = Timers]_vars

\* Two calls of InsertValues with records have been refused, one with each
\* error.
C14_Witness ==
    \E c1, c2 \in Clients :
        /\ cop[c1] = "InsertValues" /\ ck[c1] > 0 /\ cres[c1] = "WrongEndpoint"
        /\ cop[c2] = "InsertValues" /\ ck[c2] > 0 /\ cres[c2] = "NoSuchStream"
        /\ cpc[c1] = "idle" /\ cpc[c2] = "idle"

\* The caller c returns from its call in this step.
Returns(c) ==
    /\ mpc[c] # "idle"
    /\ mpc'[c] = "idle"
    /\ mres'[c].err \notin {"stopped", "panic"}

\* The collection map has an entry for the collection and tags of c's call.
EntryFor(c) ==
    {e \in colmap : e.col = marg[c].col /\ e.key = TagKey(marg[c].tags)}

\* C15: a CreateStream for a collection and tag set that has an entry in
\* the collection map returns SameStream when the entry carries the uuid
\* being created and AmbiguousStream when it carries another one.
C15_EntryGivesSameOrAmbiguous ==
    [][\A c \in MetaClients :
         (/\ marg[c].op = "CreateStream"
          /\ mpc[c] = "cCheck"
          /\ Returns(c)
          /\ EntryFor(c) # {})
         => \A e \in EntryFor(c) :
              mres'[c].err = IF e.uuid = marg[c].uuid THEN "SameStream"
                             ELSE "AmbiguousStream"]_vars

\* The arguments of c's CreateStream pass every check made before the
\* version attribute is looked at.
PassesChecks(c) ==
    /\ isValidCollection(marg[c].col)
    /\ owner[marg[c].uuid] = marg[c].node
    /\ ~TooBig(marg[c].ann)
    /\ \A k \in DOMAIN marg[c].tags :
         isValidTagKey(k) /\ isValidTagValue(marg[c].tags[k])

\* c is in a CreateStream on a uuid whose version attribute is present.
CreateOnExisting(c) ==
    /\ marg[c].op = "CreateStream"
    /\ mpc[c] # "idle"
    /\ mver[marg[c].uuid] # 0

\* C16 as stated: a CreateStream on a uuid whose version attribute is
\* present returns StreamExists and changes nothing in the store.
C16_StreamExistsAlways ==
    [][\A c \in MetaClients :
         (CreateOnExisting(c) /\ mpc'[c] # mpc[c])
         => /\ UNCHANGED metaStore
            /\ Returns(c) => mres'[c].err = "StreamExists"]_vars

\* C16 amended: a CreateStream on a uuid whose version attribute is
\* present changes nothing in the store, whatever it returns; it returns
\* StreamExists when its arguments pass the checks made before the
\* version attribute is looked at, and the error of the first failed check
\* otherwise.
C16_StreamExistsChangesNothing ==
    [][\A c \in MetaClients :
         (CreateOnExisting(c) /\ mpc'[c] # mpc[c])
         => /\ UNCHANGED metaStore
            /\ Returns(c) =>
                 /\ PassesChecks(c) => mres'[c].err = "StreamExists"
                 /\ ~PassesChecks(c) =>
                      mres'[c].err \in {"InvalidCollection", "WrongEndpoint",
                                        "AnnotationTooBig", "InvalidTagKey",
                                        "InvalidTagValue"}]_vars

\* A CreateStream on a created stream has returned StreamExists.
C16_Witness ==
    \E c \in MetaClients :
        /\ marg[c].op = "CreateStream"
        /\ mpc[c] = "idle"
        /\ mres[c].err = "StreamExists"
        /\ mver[marg[c].uuid] = SpecialVersionCreated
        /\ created[marg[c].uuid].set

\* C17: GetStreamInfo on a stream that CreateStream has created returns
\* the collection and the tag map of that CreateStream, key for key and
\* value for value, and the version SpecialVersionCreated.
C17_InfoReproducesCreate ==
    [][\A c \in MetaClients :
         (/\ mpc[c] = "info"
          /\ mpc'[c] = "idle"
          /\ mres'[c].err # "stopped"
          /\ created[marg[c].uuid].set)
         => mres'[c] = [err |-> "ok",
                        col |-> created[marg[c].uuid].col,
                        tags |-> created[marg[c].uuid].tags,
                        ver |-> SpecialVersionCreated,
                        ann |-> NoAnn]]_vars

\* GetStreamInfo has returned a stream created with two tags, one of them
\* with the empty value.
C17_Witness ==
    \E c \in MetaClients :
        /\ marg[c].op = "GetStreamInfo"
        /\ mpc[c] = "idle"
        /\ mres[c].err = "ok"
        /\ created[marg[c].uuid].set
        /\ DOMAIN mres[c].tags = {KeyA, KeyB}
        /\ mres[c].tags[KeyB] = ValEmpty

\* GetStreamAnnotation of c returns in this step, the last write of the
\* annotation object having been a SetStreamAnnotation that succeeded.
GetAfterSet(c) ==
    /\ mpc[c] = "gAnn"
    /\ mpc'[c] = "idle"
    /\ mres'[c].err # "stopped"
    /\ lastSet[marg[c].uuid].set

\* C18 as stated: GetStreamAnnotation after a SetStreamAnnotation(uuid, v, b)
\* that succeeded returns b and the version v + 1.
C18_GetReturnsExpectedPlusOne ==
    [][\A c \in MetaClients :
         GetAfterSet(c) =>
           /\ mres'[c].err = "ok"
           /\ mres'[c].ann = lastSet[marg[c].uuid].ann
           /\ mres'[c].ver = lastSet[marg[c].uuid].aver + 1]_vars

\* C18 amended: GetStreamAnnotation after a SetStreamAnnotation(uuid, v, b)
\* that succeeded returns b and the version that was stored before the
\* SetStreamAnnotation plus 1, which is v + 1 unless v is 0.
C18_GetReturnsStoredPlusOne ==
    [][\A c \in MetaClients :
         GetAfterSet(c) =>
           /\ mres'[c].err = "ok"
           /\ mres'[c].ann = lastSet[marg[c].uuid].ann
           /\ mres'[c].ver = lastSet[marg[c].uuid].prev + 1
           /\ lastSet[marg[c].uuid].aver # 0 =>
                mres'[c].ver = lastSet[marg[c].uuid].aver + 1]_vars

\* GetStreamAnnotation has returned what a SetStreamAnnotation with the
\* expected version 0 stored.
C18_Witness ==
    \E c \in MetaClients :
        /\ marg[c].op = "GetStreamAnnotation"
        /\ mpc[c] = "idle"
        /\ mres[c].err = "ok"
        /\ lastSet[marg[c].uuid].set
        /\ lastSet[marg[c].uuid].aver = 0
        /\ mres[c].ann = Ann2
        /\ mres[c].ver = 2

\* C19: SetStreamAnnotation with the expected version e, the stored
\* version being v: without an annotation object it returns NoSuchStream
\* and writes nothing; with e neither v nor 0 it returns
\* AnnotationVersionMismatch and writes nothing; otherwise it goes on to
\* write, and every write, whatever other calls run on the node, stores
\* the annotation with the version that was stored before it plus 1, and
\* returns without error.
C19_VersionRules ==
    [][\A c \in MetaClients :
         LET a == marg[c]
             cur == mann[a.uuid]
         IN /\ (mpc[c] = "sRead" /\ mpc'[c] # "sRead" /\ mres'[c].err # "stopped") =>
                 /\ ~cur.present =>
                      mres'[c].err = "NoSuchStream" /\ mpc'[c] = "idle" /\ UNCHANGED mann
                 /\ (cur.present /\ a.aver # cur.ver /\ a.aver # 0) =>
                      /\ mres'[c].err = "AnnotationVersionMismatch"
                      /\ mpc'[c] = "idle"
                      /\ UNCHANGED mann
                 /\ (cur.present /\ (a.aver = cur.ver \/ a.aver = 0)) =>
                      mpc'[c] = "sWrite" /\ UNCHANGED mann
            /\ (mpc[c] = "sWrite" /\ mpc'[c] # "sWrite" /\ mres'[c].err # "stopped") =>
                 /\ mres'[c].err = "ok"
                 /\ mann'[a.uuid] = [present |-> TRUE, ver |-> cur.ver + 1, ann |-> a.ann]
                 /\ \A u \in UUIDs \ {a.uuid} : mann'[u] = mann[u]]_vars

\* Both callers have set the annotation of one stream with success, and
\* the stored version is 3.
C19_Witness ==
    \E u \in UUIDs :
        /\ mann[u].present
        /\ mann[u].ver = 3
        /\ \A c \in MetaClients :
             /\ marg[c].op = "SetStreamAnnotation"
             /\ marg[c].uuid = u
             /\ mpc[c] = "idle"
             /\ mres[c].err = "ok"

\* C20: whatever WriteSuperBlock calls were made, the superblock stored for
\* a uuid and version is the buffer of the last WriteSuperBlock for that
\* uuid and version, and a ReadSuperBlock for them has returned it: no
\* write for another uuid or version has touched it.
C20_ReadReturnsLastWrite ==
    /\ \A k \in UUIDs \X SBVersions :
         sblast[k] # <<>> =>
           SBObjectRead(sbobj[SBOid(k[1], k[2])], SBOffset(k[2]))
             = [ok |-> TRUE, data |-> sblast[k]]
    /\ (sbres.uuid # 0 /\ sblast[<<sbres.uuid, sbres.version>>] # <<>>) =>
         sbres.ok /\ sbres.data = sblast[<<sbres.uuid, sbres.version>>]

\* Three superblocks of one stream are written, two of them next to each
\* other in one object and the third in the next object, the first of them
\* written before the other two, and ReadSuperBlock has returned the first.
C20_Witness ==
    \E u \in UUIDs, b1, b2 \in SBuffers :
        /\ b1 # b2
        /\ sblast[<<u, 2>>] = b1
        /\ sblast[<<u, 3>>] = b2
        /\ sblast[<<u, SBLOCKS_PER_CHUNK + 2>>] = b2
        /\ sbres = [uuid |-> u, version |-> 2, ok |-> TRUE, data |-> b1]

(***************************************************************************)
(* Claims about the segment-address cache.                                 *)
(***************************************************************************)
\* LockSegment of stream u returns in this step.
Locks(u) == segstep[u] = "unlocked" /\ segstep'[u] = "locked"

\* C21 as stated: LockSegment starts at the cached address when the stream
\* has an entry and at the pulled allocation otherwise, and a LockSegment
\* that follows an Unlock of the stream with a cacheable naddr starts at
\* that naddr.
C21_LockAfterUnlockResumes ==
    [][\A u \in Streams :
         Locks(u) =>
           /\ cseg'[u].naddr = cseg'[u].base
           /\ addrcache[u] # Absent => cseg'[u].base = addrcache[u]
           /\ addrcache[u] = Absent => cseg'[u].base = Head(alloc[Writer])
           /\ (lastnaddr[u] # Absent /\ lastnaddr[u] % ADDR_OBJ_SIZE < WORTH_CACHING)
                => cseg'[u].base = lastnaddr[u]]_vars

\* C21 amended: LockSegment starts at the cached address when the stream
\* has an entry, which is the naddr of the stream's last Unlock, and at the
\* pulled allocation otherwise; a LockSegment that follows an Unlock of the
\* stream with a cacheable naddr starts at that naddr when the cache was
\* not emptied by pruneSegCache in between.
C21_LockSegmentStart ==
    [][\A u \in Streams :
         Locks(u) =>
           /\ cseg'[u].naddr = cseg'[u].base
           /\ addrcache[u] # Absent =>
                cseg'[u].base = addrcache[u] /\ addrcache[u] = lastnaddr[u]
           /\ addrcache[u] = Absent =>
                cseg'[u].base = Head(alloc[Writer]) /\ cseg'[u].base = cseg'[u].ptr
           /\ (/\ lastnaddr[u] # Absent
               /\ lastnaddr[u] % ADDR_OBJ_SIZE < WORTH_CACHING
               /\ ~pruned[u])
                => cseg'[u].base = lastnaddr[u]]_vars

\* Stream 2 has locked a segment at a fresh allocation, written one blob,
\* unlocked, and locked again: the second segment starts behind the blob.
C21_Witness ==
    /\ segstep[2] = "locked"
    /\ cseg[2].base = lastnaddr[2]
    /\ cseg[2].naddr = cseg[2].base
    /\ cseg[2].base % ADDR_OBJ_SIZE = SmallLen + 2
    /\ cseg[2].ptr # cseg[2].base

\* C22: the segment-address cache never holds more than SEGCACHE_SIZE
\* entries, and when pruneSegCache has found it at capacity it is empty.
C22_CacheBounded ==
    /\ CacheLen <= SEGCACHE_SIZE
    /\ prunedAt # Absent => prunedAt = SEGCACHE_SIZE /\ CacheLen = 0

\* pruneSegCache has just found SEGCACHE_SIZE entries and emptied the cache.
C22_Witness ==
    /\ prunedAt = SEGCACHE_SIZE
    /\ CacheLen = 0
    /\ \E u \in Streams : segstep[u] = "insert"

\* C23: every entry of the segment-address cache has
\* naddr & OFFSET_MASK < OFFSET_MASK - MAX_EXPECTED_OBJECT_SIZE; Unlock
\* goes on to insert seg.naddr exactly when seg.naddr is such an address,
\* what it inserts is seg.naddr, and otherwise the stream has no entry
\* after Unlock.
C23_EntriesHaveRoom ==
    /\ [](\A u \in Streams :
            addrcache[u] # Absent =>
              addrcache[u] % (OFFSET_MASK + 1) < OFFSET_MASK - MAX_EXPECTED_OBJECT_SIZE)
    /\ [][\A u \in Streams :
            LET room == cseg[u].naddr % (OFFSET_MASK + 1)
                          < OFFSET_MASK - MAX_EXPECTED_OBJECT_SIZE
            IN /\ (segstep[u] = "locked" /\ segstep'[u] # "locked") =>
                    /\ room => segstep'[u] = "prune"
                    /\ ~room => segstep'[u] = "unlocked" /\ addrcache'[u] = Absent
               /\ (segstep[u] = "insert" /\ segstep'[u] = "unlocked") =>
                    addrcache'[u] = cseg[u].naddr /\ room]_vars

\* Unlock has inserted the naddr of a segment whose last Write had to go on
\* in a new object.
C23_Witness ==
    \E u \in Streams :
        /\ segstep[u] = "unlocked"
        /\ addrcache[u] # Absent
        /\ addrcache[u] = cseg[u].naddr
        /\ cseg[u].naddr % ADDR_OBJ_SIZE = 0
        /\ cseg[u].naddr # cseg[u].base

(***************************************************************************)
(* Claims about the handle pools.                                          *)
(***************************************************************************)
\* How often x occurs in the sequence q.
Occurs(q, x) == Cardinality({k \in DOMAIN q : q[k] = x})

\* The callers that hold handle i of pool p.
HoldersOf(p, i) ==
    {c \in Callers : hstep[c] = "held" /\ hwant[c].pool = p /\ hheld[c] = i}

\* The handles of pool p that are out.
Out(p) == otherheld[p] \cup {i \in Handles(p) : HoldersOf(p, i) # {}}

\* C24: in each pool every handle is in exactly one place: marked
\* available in the vendor, queued for acquisition, held by one caller, or
\* queued for return; so no handle is held by two callers and at most
\* NumHandles(p) handles are out.
C24_HandleInOnePlace ==
    \A p \in Pools :
        /\ \A i \in Handles(p) :
             (IF h_avail[p][i] THEN 1 ELSE 0)
               + Occurs(hidx[p], i)
               + Occurs(hidx_ret[p], i)
               + Cardinality(HoldersOf(p, i))
               + (IF i \in otherheld[p] THEN 1 ELSE 0) = 1
        /\ Cardinality(Out(p)) <= NumHandles(p)
        /\ \A c \in Callers :
             (hstep[c] = "held" /\ hwant[c].pool = p) => hheld[c] \in Handles(p)

\* All NUM_RHANDLES read handles are out, one of them held by a caller,
\* while a second caller waits for one; every acquisition the behaviour
\* allows has been started.
C24_Witness ==
    /\ Cardinality(Out("read")) = NUM_RHANDLES
    /\ \E c, d \in Callers :
         /\ hstep[c] = "held" /\ hwant[c].pool = "read"
         /\ hstep[d] = "wait" /\ hwant[d].pool = "read"
    /\ nacq = MaxAcquires

\* Caller c waits for a handle of its pool.
Waits(c) == hstep[c] = "wait"

\* A handle of the pool c takes from is not out.
NotAllOut(c) == Cardinality(Out(hwant[c].pool)) < NumHandles(hwant[c].pool)

\* A handle of pool p is on its way back: queued for return, or marked
\* available and not yet sent.
OnItsWay(p) == hidx_ret[p] # <<>> \/ \E i \in Handles(p) : h_avail[p][i]

\* A holder can always send its handle on the return channel.
ReleaseNeverBlocks ==
    \A c \in Callers :
        hstep[c] = "held" => Len(hidx_ret[hwant[c].pool]) < ChanCap(hwant[c].pool)

AboutToDelete(c) == cop[c] = "DeleteRange" /\ cpc[c] = "delete"

\* The tree engine's delete-range is invoked by c in this step.
DeleteInvoked(c) == AboutToDelete(c) /\ cpc'[c] = "unlock"

\* C26: DeleteRange orders its effects under the tree mutex: the records
\* pending when it acquired the mutex have been handed to the tree engine
\* when the tree engine's delete-range is invoked, and no batch is handed
\* to the tree engine between DeleteRange's own commit and the delete.
C26_CommitThenDelete ==
    [][\A c \in Clients :
         /\ DeleteInvoked(c) => \A r \in pendingAtLock[c] : handedBy[r] # <<>>
         /\ AboutToDelete(c) => ncommit' = ncommit]_vars

\* The same while InitiateShutdown has not started.
C26_CommitThenDeleteNoShutdown ==
    [][cpc[Shut] = "off" =>
         \A c \in Clients :
           /\ DeleteInvoked(c) => \A r \in pendingAtLock[c] : handedBy[r] # <<>>
           /\ AboutToDelete(c) => ncommit' = ncommit]_vars

\* A DeleteRange found records pending, committed them and has invoked the
\* delete.
C26_Witness ==
    \E c \in Clients :
      /\ cop[c] = "DeleteRange"
      /\ cpc[c] = "unlock"
      /\ pendingAtLock[c] # {}
      /\ \A r \in pendingAtLock[c] : handedBy[r] # <<>>


\* The record belongs to an InsertValues call that has not returned yet.
InProgress(r) == \E c \in Clients : cpc[c] # "idle" /\ r \in Range(crecs[c])

\* InitiateShutdown closes its completion signal in this step.
SignalClosed == cpc[Shut] = "close" /\ cpc'[Shut] = "closed"

\* C27: when the completion signal of InitiateShutdown is closed, the
\* pending batch of the open tree is empty and every record accepted by an
\* InsertValues call that has returned has been handed to the tree engine,
\* whatever InsertValues, Flush and the timers do meanwhile.
C27_ClosedMeansCommitted ==
    [][SignalClosed =>
         /\ store = <<>>
         /\ \A r \in 1..nrec : ~InProgress(r) => handedBy[r] # <<>>]_vars


\* getTree finds no open tree in this step and newOpenTree asks the block
\* store whether the stream exists.
QueriesBlockStore(c) == cpc[c] = "lookup" /\ ~opened /\ cpc'[c] # "lookup"

\* commit hands the batch to the tree engine in this step.
CommitsBatch(g) == cpc[g] = "hand" /\ cpc'[g] = "clear"

\* C28: no I/O is performed while the global mutex is held: a goroutine
\* holding it neither asks the block store whether the stream exists nor
\* commits a batch.
C28_NoIOUnderGloblock ==
    [][\A g \in Goroutines :
         globlock = g =>
           /\ g \in Clients => ~QueriesBlockStore(g)
           /\ ~CommitsBatch(g)]_vars


(***************************************************************************)
(* Claims about the size of annotations and about ListStreams.             *)
(***************************************************************************)
\* C29: after any sequence of CreateStream and SetStreamAnnotation calls the
\* annotation stored for a stream is never larger than MaxAnnotationSize,
\* and a call that brings a larger one does not succeed: it is rejected
\* and the stored annotation and its version stay as they were.
C29_AnnotationNeverTooBig ==
    /\ \A u \in UUIDs : mann[u].present => ~TooBig(mann[u].ann)
    /\ \A c \in MetaClients :
         (/\ mpc[c] = "idle"
          /\ marg[c].op \in {"CreateStream", "SetStreamAnnotation"}
          /\ TooBig(marg[c].ann)) => mres[c].err # "ok"


\* ListStreams(collection, partial=false, tags) returns in this step, its
\* arguments having passed the checks.
ListReturns(c) ==
    /\ Returns(c)
    /\ marg[c].op = "ListStreams"
    /\ ~marg[c].partial
    /\ mres'[c].err \notin {"InvalidCollection", "InvalidTagKey", "InvalidTagValue"}

\* The entries of the collection whose key starts with the canonical tag
\* string of c's call.
Matched(c) ==
    {e \in colmap : e.col = marg[c].col /\ IsPrefix(TagKey(marg[c].tags), e.key)}

HandsOut(n) == given'[n] # given[n]

\* The lock-range the producer of n is handing out from is the one its last
\* successful obtainBaseAddress reserved: the counter value that call read
\* and advanced.
RangeReserved(n) == abase[n] = le[n] /\ le[n] >= CreateDatabaseAddr

\* C31: every address a node's producer hands out is 16 MiB-aligned and lies
\* in a lock-range that the node reserved through a successful
\* obtainBaseAddress; a node's successive allocations are strictly
\* increasing; no allocation comes from a range that was not reserved, also
\* after a reservation has failed.
C31_AllocFromReservedRange ==
    [][\A n \in Nodes :
         HandsOut(n) =>
           /\ ptr[n] % ADDR_OBJ_SIZE = 0
           /\ RangeReserved(n)
           /\ ptr[n] >= abase[n]
           /\ ptr[n] < abase[n] + ADDR_LOCK_SIZE
           /\ given[n] # <<>> => ptr[n] > given[n][Len(given[n])]]_vars

\* The same for the steps in which the last reservation of the node has
\* not failed.
C31_AllocFromReservedRangeUnlessFailed ==
    [][\A n \in Nodes :
         (HandsOut(n) /\ arv[n] # 0) =>
           /\ ptr[n] % ADDR_OBJ_SIZE = 0
           /\ RangeReserved(n)
           /\ ptr[n] >= abase[n]
           /\ ptr[n] < abase[n] + ADDR_LOCK_SIZE
           /\ given[n] # <<>> => ptr[n] > given[n][Len(given[n])]]_vars


\* The stream has its collection-map entry, annotation object, stream
\* attribute and collection-index entry.
FullyCreated(u) ==
    /\ \E e \in colmap : e.uuid = u
    /\ mann[u].present
    /\ mstream[u].present
    /\ \E e \in colmap : e.uuid = u /\ e.col \in colindex

\* C32: CreateStream writes the version attribute last: whenever a stream's
\* version attribute is present, also when a call was stopped between two
\* of its steps, the stream's collection-map entry, annotation object,
\* collection-index entry and stream attribute are present.
C32_VersionWrittenLast ==
    \A u \in UUIDs : mver[u] # 0 => FullyCreated(u)



(***************************************************************************)
(* Further claims about the read path and the coalescer.                   *)
(***************************************************************************)
\* Every flushWrite of the chunk's object has written and has invalidated.
FlushDone == wpc = "idle"

\* C33: after flushWrite has written to the object and invalidated the
\* chunk, the read cache holds no content of the chunk that predates the
\* write, whatever a concurrent cache-miss fetch of the chunk (store read,
\* then cache insertion) does.
C33_NoStaleChunkAfterFlush ==
    FlushDone => (cachedVer = Absent \/ cachedVer = objVer)

\* The same while no fetch of the chunk is between its store read and its
\* cache insertion across the flush: the cache is consulted only by calls
\* that start after the flush.
C33_NoStaleChunkWithoutFetchInFlight ==
    (FlushDone /\ \A r \in Readers : bslice[r] \in {Absent, objVer})
        => (cachedVer = Absent \/ cachedVer = objVer)

\* The caller c is back from DeleteRange, with nil or with an error.
DeleteRangeReturned(c) ==
    cop[c] = "DeleteRange" /\ cpc[c] = "idle" /\ cres[c] \in {"ok", "error"}

\* C34: DeleteRange releases the stream's tree mutex on every return path:
\* a caller that is back from DeleteRange, with success or with the error of
\* a write tree that could not be opened, does not hold the mutex.
C34_DeleteRangeReleasesMutex ==
    \A c \in Clients : DeleteRangeReturned(c) => treelock # c

\* The same for the calls that return nil.
C34_DeleteRangeReleasesMutexOnSuccess ==
    \A c \in Clients : (DeleteRangeReturned(c) /\ cres[c] = "ok") => treelock # c

\* C35: no caller of InsertValues, Flush or DeleteRange waits forever at its
\* send on a batch's abort channel (the signal is buffered or consumed, the
\* caller goes on to commit), and the shutdown goroutine, once started,
\* gets past its own sends and closes its completion signal.
C35_NoSendBlocksForever ==
    /\ \A c \in Clients : (cpc[c] = "signal") ~> (cpc[c] # "signal")
    /\ (cpc[Shut] # "off") ~> (cpc[Shut] = "closed")

\* A send waits on a channel only while the channel's timer can still
\* receive from it.
C35_WaitingSendHasReceiver ==
    \A g \in Goroutines : sendTo[g] # 0 => cpc[TimerOf(sendTo[g])] = "sleep"

\* Without InitiateShutdown no send ever waits.
C35_NoSendWaitsWithoutShutdown ==
    cpc[Shut] = "off" => \A g \in Goroutines : sendTo[g] = 0

\* The timer of batch k hands the pending records to the tree engine in this
\* step.
TimerHandsOver(k) == cpc[TimerOf(k)] = "hand" /\ cpc'[TimerOf(k)] = "clear"

\* C38: a coalesce timer commits only the batch it was started for: the
\* records a timer hands to the tree engine belong to the batch whose abort
\* channel the timer was given, also when that batch was committed by a
\* caller while the timer waited for the tree mutex and a newer batch has
\* been started since.
C38_TimerCommitsOwnBatch ==
    [][\A k \in 1..MaxBatches : TimerHandsOver(k) => sigEC = k]_vars

\* C40: whenever no goroutine holds the stream's tree mutex, the pending
\* batch holds fewer than CoalesceMaxPoints records: a batch that reaches
\* the threshold is committed before the mutex is released.
C40_BelowThresholdWhenUnlocked ==
    treelock = NoOne => Len(store) < CoalesceMaxPoints

\* A call of InsertValues whose append reached the threshold has returned,
\* and the mutex is free.
C40_Witness ==
    /\ treelock = NoOne
    /\ \E c \in Clients :
         /\ cop[c] = "InsertValues" /\ creached[c]
         /\ cpc[c] = "idle" /\ cres[c] = "ok"

(***************************************************************************)
(* Further claims about segments and about the stream directory.           *)
(***************************************************************************)
Overlap(w1, w2) == w1.lo < w2.hi /\ w2.lo < w1.hi

\* LockSegment of stream u returns in this step with a segment that starts
\* at a cached address.
Resumes(u) ==
    /\ segstep[u] = "unlocked" /\ segstep'[u] = "locked"
    /\ cseg'[u].base # cseg'[u].ptr

\* C36: with one segment per stream at a time, the byte ranges
\* [a, a + len + 2) of all blobs written are pairwise disjoint, whatever the
\* order of LockSegment, Write and Unlock on the streams, re-locks that
\* resume at a cached address and prunes of the whole cache included; and a
\* segment that resumes starts at or above the end of everything its stream
\* has written in that object.
C36_WrittenRangesDisjoint ==
    /\ [](\A w1, w2 \in wrote : w1 # w2 => ~Overlap(w1, w2))
    /\ [][\A u \in Streams :
            Resumes(u) =>
              \A w \in wrote :
                (w.stream = u /\ ObjectOf(w.lo) = ObjectOf(cseg'[u].base))
                    => w.hi <= cseg'[u].base]_vars

\* provideAllocs has sent no allocation of the range at 0, the range it
\* takes after a reservation that failed.
NoUnreservedAlloc == 0 \notin Range(given[Writer])

\* Both halves hold while every allocation sent came from a range the node
\* reserved.
C36_DisjointWhileRangesReserved ==
    /\ [](NoUnreservedAlloc => \A w1, w2 \in wrote : w1 # w2 => ~Overlap(w1, w2))
    /\ [][\A u \in Streams :
            (NoUnreservedAlloc /\ Resumes(u)) =>
              \A w \in wrote :
                (w.stream = u /\ ObjectOf(w.lo) = ObjectOf(cseg'[u].base))
                    => w.hi <= cseg'[u].base]_vars

\* ListStreams is asked, with partial = false, for the collection and the
\* full tag set stream u was created with.
AsksForCreated(c, u) ==
    /\ created[u].set
    /\ ~marg[c].partial
    /\ marg[c].col = created[u].col
    /\ marg[c].tags = created[u].tags

\* Every entry of the collection maps was written by a CreateStream call
\* that has returned nil: no call is part-way, none was stopped part-way.
OnlySuccessfulCreates ==
    \A e \in colmap :
        /\ created[e.uuid].set
        /\ created[e.uuid].col = e.col
        /\ TagKey(created[e.uuid].tags) = e.key

\* C37: after successful CreateStream calls every created stream is found
\* by its collection and full tag set: ListStreams(collection, false, tags)
\* with a created stream's own tags returns that stream's UUID and no
\* other, never AmbiguousTags, also when the tag set of another stream
\* extends this one or this one is empty.
C37_CreatedStreamFoundByOwnTags ==
    [][\A c \in MetaClients, u \in UUIDs :
         (ListReturns(c) /\ AsksForCreated(c, u) /\ OnlySuccessfulCreates) =>
           /\ mres'[c].err = "ok"
           /\ {st.uuid : st \in mres'[c].streams} = {u}]_vars

\* A fetching goroutine is between its start and the end of its fan-out.
FetchInFlight == \E r \in Readers : Fetching(r)

====
